---- MODULE Spec2Model ----
(***************************************************************************)
(* A model of the stereos-core splat pipeline: the PLY decoder (ply.rs),   *)
(* the cleaning filter (clean.rs), the glTF/GLB encoder (gltf.rs) and the  *)
(* entry point convert_with_clean (lib.rs).                                *)
(*                                                                         *)
(* f32 values are fixed-point integers with FixedOne units per 1.0; the    *)
(* one value that is not ordered, NaN, is kept apart.  Byte strings are    *)
(* sequences of integers 0..255.  Indices are 1-based where the source is  *)
(* 0-based.                                                                *)
(***************************************************************************)
EXTENDS Integers, Sequences, FiniteSets, TLC

VARIABLES
    pc,             \* position of the call being modelled
    ply_data,       \* convert_with_clean / ply::parse: the input bytes
    claims,         \* token::validate's outcome for the call's token
    config,         \* the ExportConfig
    clean_options,  \* Option<&CleanOptions>
    cloud,          \* the GaussianCloud a stage is given
    cleaned,        \* the GaussianCloud clean returned
    clean_stats,    \* Option<CleanStats>
    output,         \* the bytes the encoder returned
    result,         \* what the call returned to its caller
    token,          \* what the credential holds: validity and signed claims
    overflow_checks,\* the build: TRUE when integer overflow panics, FALSE when it wraps
    meshopt,        \* the build and its meshopt library: "off" without the feature
    calls,          \* the stages invoked so far, in order
    entry           \* the function the caller invoked, and the options handed to it

vars == <<pc, ply_data, token, overflow_checks, meshopt, claims, config, clean_options, cloud, cleaned,
          clean_stats, output, result, calls, entry>>

-----------------------------------------------------------------------------
(* Option<T> *)

None == [some |-> FALSE]

Some(v) == [some |-> TRUE, val |-> v]

-----------------------------------------------------------------------------
(* f32 *)

\* fixed-point units per 1.0
FixedOne == 100

\* the f32 value that no comparison orders
NaN == -1000000000

\* f32::INFINITY, above every other value
Infinity == 999999999

IsNaN(x) == x = NaN

\* a >= b on f32: false when either side is NaN
F32Ge(a, b) == ~IsNaN(a) /\ ~IsNaN(b) /\ a >= b

\* a <= b on f32: false when either side is NaN
F32Le(a, b) == ~IsNaN(a) /\ ~IsNaN(b) /\ a <= b

\* a < b on f32: false when either side is NaN
F32Lt(a, b) == ~IsNaN(a) /\ ~IsNaN(b) /\ a < b

\* a + b, a - b: NaN is absorbing
F32Add(a, b) ==
    IF IsNaN(a) \/ IsNaN(b) THEN NaN
    ELSE IF a = Infinity \/ b = Infinity THEN Infinity
    ELSE a + b

F32Sub(a, b) == IF IsNaN(a) \/ IsNaN(b) THEN NaN ELSE a - b

\* a * b in fixed point
F32Mul(a, b) ==
    IF IsNaN(a) \/ IsNaN(b) THEN NaN
    ELSE IF a = Infinity \/ b = Infinity
    THEN (IF a = 0 \/ b = 0 THEN NaN ELSE IF a < 0 \/ b < 0 THEN -Infinity ELSE Infinity)
    ELSE (a * b) \div FixedOne

F32Abs(a) == IF IsNaN(a) THEN NaN ELSE IF a < 0 THEN -a ELSE a

RECURSIVE SqrtSearch(_, _, _)
SqrtSearch(n, lo, hi) ==
    IF lo >= hi THEN lo
    ELSE LET mid == (lo + hi + 1) \div 2
         IN  IF mid * mid <= n THEN SqrtSearch(n, mid, hi)
             ELSE SqrtSearch(n, lo, mid - 1)

\* the square root of a non-negative integer, rounded down
ISqrt(n) == SqrtSearch(n, 0, 46340)

\* a.partial_cmp(b): None when either side is NaN
partial_cmp(a, b) ==
    IF IsNaN(a) \/ IsNaN(b) THEN None
    ELSE Some(IF a < b THEN -1 ELSE IF a = b THEN 0 ELSE 1)

\* insert v into an ascending sequence, after its equals
RECURSIVE InsertSorted(_, _)
InsertSorted(s, v) ==
    IF s = <<>> THEN <<v>>
    ELSE IF partial_cmp(v, s[Len(s)]).some /\ partial_cmp(v, s[Len(s)]).val >= 0
         THEN Append(s, v)
         ELSE Append(InsertSorted(SubSeq(s, 1, Len(s) - 1), v), s[Len(s)])

RECURSIVE SortAscending(_)
SortAscending(s) ==
    IF s = <<>> THEN <<>>
    ELSE InsertSorted(SortAscending(SubSeq(s, 1, Len(s) - 1)), s[Len(s)])

\* v.sort_by(|a, b| a.partial_cmp(b).unwrap()) panics when a comparison it
\* makes has no answer: a slice of two or more elements compares each of them
SortPanics(s) == Len(s) >= 2 /\ \E k \in 1..Len(s) : IsNaN(s[k])

-----------------------------------------------------------------------------
(* GaussianCloud *)

\* GaussianCloud::with_capacity
with_capacity ==
    [count |-> 0, positions |-> <<>>, opacities |-> <<>>, scales |-> <<>>,
     rotations |-> <<>>, sh_coeffs |-> <<>>]

\* pushes that leave the SH coefficients out
PushSplatWithoutSh(c, pos, opacity, scale, rot, sh) ==
    [c EXCEPT !.positions = Append(@, pos),
              !.opacities = Append(@, opacity),
              !.scales = Append(@, scale),
              !.rotations = Append(@, rot)]

\* the five pushes that append one splat
PushSplat(c, pos, opacity, scale, rot, sh) ==
    [c EXCEPT !.positions = Append(@, pos),
              !.opacities = Append(@, opacity),
              !.scales = Append(@, scale),
              !.rotations = Append(@, rot),
              !.sh_coeffs = Append(@, sh)]

\* the cloud's splats at the indices idx, last index first
RECURSIVE PushAllReversed(_, _, _)
PushAllReversed(c, self, idx) ==
    IF idx = <<>> THEN c
    ELSE PushAllReversed(PushSplat(c, self.positions[idx[Len(idx)]],
                                   self.opacities[idx[Len(idx)]],
                                   self.scales[idx[Len(idx)]],
                                   self.rotations[idx[Len(idx)]],
                                   self.sh_coeffs[idx[Len(idx)]]),
                         self, SubSeq(idx, 1, Len(idx) - 1))

\* the cloud's splats at the indices idx, in that order, with its count set
RECURSIVE PushAll(_, _, _)
PushAll(c, self, idx) ==
    IF idx = <<>> THEN c
    ELSE PushAll(PushSplat(c, self.positions[Head(idx)], self.opacities[Head(idx)],
                           self.scales[Head(idx)], self.rotations[Head(idx)],
                           self.sh_coeffs[Head(idx)]),
                 self, Tail(idx))

-----------------------------------------------------------------------------
(* clean.rs *)

\* the opacity stage keeps a splat
OpacityKeepsStrict(opacity, min_opacity) == F32Ge(opacity, min_opacity) /\ opacity # min_opacity

OpacityKeeps(opacity, min_opacity) == F32Ge(opacity, min_opacity)

\* the scale stage keeps a splat
ScaleKeepsAll(scale, min_scale) ==
    /\ F32Ge(scale[1], min_scale)
    /\ F32Ge(scale[2], min_scale)
    /\ F32Ge(scale[3], min_scale)

ScaleKeeps(scale, min_scale) ==
    \/ F32Ge(scale[1], min_scale)
    \/ F32Ge(scale[2], min_scale)
    \/ F32Ge(scale[3], min_scale)

\* Phase 1: the indices the opacity stage keeps, and how many it removes
after_opacity(self, options, keep_indices) ==
    SelectSeq(keep_indices,
              LAMBDA i : OpacityKeeps(self.opacities[i], options.min_opacity))

removed_low_opacity_never(self, options, keep_indices) == 0

removed_low_opacity(self, options, keep_indices) ==
    Cardinality({k \in 1..Len(keep_indices) :
        ~OpacityKeeps(self.opacities[keep_indices[k]], options.min_opacity)})

\* Phase 2: the indices the scale stage keeps, and how many it removes
after_scale(self, options, keep_indices) ==
    SelectSeq(keep_indices,
              LAMBDA i : ScaleKeeps(self.scales[i], options.min_scale))

removed_small_scale_all(self, options, keep_indices) ==
    Cardinality({i \in 1..self.count : ~ScaleKeeps(self.scales[i], options.min_scale)})

removed_small_scale(self, options, keep_indices) ==
    Cardinality({k \in 1..Len(keep_indices) :
        ~ScaleKeeps(self.scales[keep_indices[k]], options.min_scale)})

\* the median closure: the middle of a sorted slice
median(sorted) ==
    LET n == Len(sorted)
    IN  IF n % 2 = 0
        THEN LET sum == F32Add(sorted[n \div 2], sorted[n \div 2 + 1])
             IN  IF IsNaN(sum) THEN NaN ELSE sum \div 2
        ELSE sorted[n \div 2 + 1]

\* Vec3::distance
distance(p, c) ==
    IF \E k \in 1..3 : IsNaN(p[k]) \/ IsNaN(c[k]) THEN NaN
    ELSE ISqrt((p[1] - c[1]) * (p[1] - c[1]) + (p[2] - c[2]) * (p[2] - c[2])
               + (p[3] - c[3]) * (p[3] - c[3]))

\* 1.4826 * mad
robust_sigma(mad) == IF IsNaN(mad) THEN NaN ELSE (14826 * mad) \div 10000

\* median_distance + sigma_threshold * robust_sigma
max_distance(median_distance, sigma_threshold, mad) ==
    F32Add(median_distance, F32Mul(sigma_threshold, robust_sigma(mad)))

\* an outlier stage that keeps a splat only below the largest distance
OutlierKeepsStrict(d, max_d) == F32Lt(d, max_d)

\* the outlier stage keeps a splat at this distance
OutlierKeeps(d, max_d) == F32Le(d, max_d)

\* Phase 3 on the survivors keep_indices (more than 2 of them), with a sigma
\* threshold: [panic |-> TRUE], or the indices kept and the number removed
outlier_phase(self, sigma_threshold, keep_indices) ==
    LET n  == Len(keep_indices)
        xs == [k \in 1..n |-> self.positions[keep_indices[k]][1]]
        ys == [k \in 1..n |-> self.positions[keep_indices[k]][2]]
        zs == [k \in 1..n |-> self.positions[keep_indices[k]][3]]
    IN  IF SortPanics(xs) \/ SortPanics(ys) \/ SortPanics(zs)
        THEN [panic |-> TRUE]
        ELSE
        LET center == <<median(SortAscending(xs)), median(SortAscending(ys)),
                        median(SortAscending(zs))>>
            distances == [k \in 1..n |-> distance(self.positions[keep_indices[k]], center)]
        IN  IF SortPanics(distances) THEN [panic |-> TRUE]
            ELSE
            LET sorted_distances == SortAscending(distances)
                median_distance == median(sorted_distances)
                abs_deviations ==
                    [k \in 1..n |-> F32Abs(F32Sub(sorted_distances[k], median_distance))]
                mad == median(SortAscending(abs_deviations))
                max_d == max_distance(median_distance, sigma_threshold, mad)
                kept == {k \in 1..n : OutlierKeeps(distances[k], max_d)}
            IN  [panic |-> FALSE,
                 after_outlier |->
                     SelectSeq(keep_indices,
                               LAMBDA i : \E k \in kept : keep_indices[k] = i),
                 removed_outliers |-> n - Cardinality(kept)]

\* an outlier stage that also runs on two survivors
runs_outlier_on_two(options, keep_indices) ==
    options.outlier_sigma.some /\ Len(keep_indices) > 1

\* if let Some(sigma_threshold) = options.outlier_sigma { if keep_indices.len() > 2
runs_outlier(options, keep_indices) ==
    options.outlier_sigma.some /\ Len(keep_indices) > 2

\* GaussianCloud::clean: [kind |-> "panic"], or the cleaned cloud and the
\* statistics, with keep_indices as it stood after each of the three phases
clean(self, options) ==
    LET keep0 == [i \in 1..self.count |-> i]
        keep1 == after_opacity(self, options, keep0)
        low   == removed_low_opacity(self, options, keep0)
        keep2 == after_scale(self, options, keep1)
        small == removed_small_scale(self, options, keep1)
        phase3 == IF runs_outlier(options, keep2)
                  THEN outlier_phase(self, options.outlier_sigma.val, keep2)
                  ELSE [panic |-> FALSE, after_outlier |-> keep2, removed_outliers |-> 0]
    IN  IF phase3.panic THEN [kind |-> "panic"]
        ELSE LET keep3 == phase3.after_outlier
                 built == [PushAll(with_capacity, self, keep3) EXCEPT !.count = Len(keep3)]
             IN  [kind |-> "ok",
                  cloud |-> built,
                  after_opacity |-> keep1,
                  after_scale |-> keep2,
                  keep_indices |-> keep3,
                  stats |-> [original_count |-> self.count,
                             removed_low_opacity |-> low,
                             removed_small_scale |-> small,
                             removed_outliers |-> phase3.removed_outliers,
                             final_count |-> built.count]]

-----------------------------------------------------------------------------
(* Rust integers *)

\* the width of usize in bits (scaled down from 64, or from wasm32's 32)
UsizeBits == 16

\* usize::MAX and isize::MAX
UsizeMax == 2^UsizeBits - 1

IsizeMax == 2^(UsizeBits - 1) - 1

-----------------------------------------------------------------------------
(* Byte strings and str *)

Min(S) == CHOOSE p \in S : \A q \in S : p <= q

\* haystack.windows(n).position(|w| w == pat): the 0-based offset of the
\* first occurrence, or None
Position(haystack, pat) ==
    LET hits == {p \in 0..(Len(haystack) - Len(pat)) :
                    /\ haystack[p + 1] = pat[1]
                    /\ SubSeq(haystack, p + 1, p + Len(pat)) = pat}
    IN  IF hits = {} THEN None ELSE Some(Min(hits))

\* str::contains
contains(text, pat) == Position(text, pat).some

\* str::starts_with
starts_with(text, prefix) ==
    Len(text) >= Len(prefix) /\ SubSeq(text, 1, Len(prefix)) = prefix

IsContinuation(b) == b \in 128..191

\* the length of the UTF-8 sequence a byte leads, 0 when it leads none
SequenceLength(b) ==
    IF b < 128 THEN 1
    ELSE IF b \in 194..223 THEN 2
    ELSE IF b \in 224..239 THEN 3
    ELSE IF b \in 240..244 THEN 4
    ELSE 0

\* std::str::from_utf8 succeeds: every byte that is no continuation byte leads
\* a complete sequence, and every continuation byte lies within one
from_utf8_ok(b) ==
    \A i \in 1..Len(b) :
        IF IsContinuation(b[i])
        THEN \E j \in 1..(i - 1) :
                /\ i - j <= 3
                /\ ~IsContinuation(b[j])
                /\ \A m \in (j + 1)..i : IsContinuation(b[m])
                /\ SequenceLength(b[j]) >= i - j + 1
        ELSE /\ SequenceLength(b[i]) > 0
             /\ i + SequenceLength(b[i]) - 1 <= Len(b)
             /\ \A m \in (i + 1)..(i + SequenceLength(b[i]) - 1) : IsContinuation(b[m])
             /\ (b[i] = 224 => b[i + 1] >= 160)
             /\ (b[i] = 237 => b[i + 1] <= 159)
             /\ (b[i] = 240 => b[i + 1] >= 144)
             /\ (b[i] = 244 => b[i + 1] <= 143)

\* str::lines: the lines of a text, without their "\n" or "\r\n"
RECURSIVE lines(_)
lines(text) ==
    IF text = <<>> THEN <<>>
    ELSE LET nl == Position(text, <<10>>)
         IN  IF ~nl.some THEN <<text>>
             ELSE LET raw  == SubSeq(text, 1, nl.val)
                      line == IF raw # <<>> /\ raw[Len(raw)] = 13
                              THEN SubSeq(raw, 1, Len(raw) - 1) ELSE raw
                  IN  <<line>> \o lines(SubSeq(text, nl.val + 2, Len(text)))

\* char::is_whitespace, on ASCII
IsWhitespace(b) == b \in {9, 10, 11, 12, 13, 32}

\* the elements of a finite set of integers in ascending order
Ascending(S) ==
    [k \in 1..Cardinality(S) |-> CHOOSE x \in S : Cardinality({y \in S : y < x}) = k - 1]

\* str::split_whitespace: the maximal runs of non-whitespace, in order
split_whitespace(text) ==
    LET starts == {i \in 1..Len(text) :
                      ~IsWhitespace(text[i]) /\ (i = 1 \/ IsWhitespace(text[i - 1]))}
        EndOf(i) == Min({j \in i..Len(text) :
                            j = Len(text) \/ IsWhitespace(text[j + 1])})
        first == Ascending(starts)
    IN  [k \in 1..Len(first) |-> SubSeq(text, first[k], EndOf(first[k]))]

IsDigit(b) == b \in 48..57

\* the value of a run of decimal digits, or None once it exceeds limit
RECURSIVE DigitsValue(_, _, _, _)
DigitsValue(digits, i, acc, limit) ==
    IF i > Len(digits) THEN Some(acc)
    ELSE LET next == acc * 10 + (digits[i] - 48)
         IN  IF next > limit THEN None ELSE DigitsValue(digits, i + 1, next, limit)

\* str::parse::<usize>: an optional '+', then one or more digits, in range
parse_usize(tok) ==
    LET digits == IF tok # <<>> /\ tok[1] = 43 THEN Tail(tok) ELSE tok
    IN  IF digits = <<>> \/ \E k \in 1..Len(digits) : ~IsDigit(digits[k])
        THEN None
        ELSE DigitsValue(digits, 1, 0, UsizeMax)

\* str::parse::<f32> on the spellings the inputs use: "nan" in any case, or an
\* optional sign, digits, and an optional '.' and digits, with a digit somewhere
parse_f32(tok) ==
    LET signed == tok # <<>> /\ tok[1] \in {43, 45}
        body   == IF signed THEN Tail(tok) ELSE tok
        dot    == Position(body, <<46>>)
        int    == IF dot.some THEN SubSeq(body, 1, dot.val) ELSE body
        frac   == IF dot.some THEN SubSeq(body, dot.val + 2, Len(body)) ELSE <<>>
        frac2  == [k \in 1..2 |-> IF k <= Len(frac) THEN frac[k] ELSE 48]
        mag    == DigitsValue(int, 1, 0, 1000000).val * FixedOne
                  + DigitsValue(frac2, 1, 0, 99).val
    IN  IF Len(body) = 3 /\ body[1] \in {78, 110} /\ body[2] \in {65, 97}
           /\ body[3] \in {78, 110}
        THEN Some(NaN)
        ELSE IF \/ Len(int) + Len(frac) = 0
                \/ \E k \in 1..Len(int) : ~IsDigit(int[k])
                \/ \E k \in 1..Len(frac) : ~IsDigit(frac[k])
        THEN None
        ELSE Some(IF signed /\ tok[1] = 45 THEN -mag ELSE mag)

\* f32::from_le_bytes, to fixed point: sign, exponent and mantissa of the four
\* bytes; magnitudes below one unit become 0, magnitudes of 2^24 and more are
\* held at the largest the fixed point has, and a non-zero mantissa under the
\* all-ones exponent is NaN
F32FromLeBytes(b) ==
    LET sign == b[4] \div 128
        e    == (b[4] % 128) * 2 + b[3] \div 128
        m    == (b[3] % 128) * 65536 + b[2] * 256 + b[1]
        k    == e - 127
        mag  == IF e = 0 \/ k < -7 THEN 0
                ELSE IF k > 23 THEN (8388608 + m) * FixedOne
                ELSE ((8388608 + m) * FixedOne) \div 2^(23 - k)
    IN  IF e = 255 /\ m # 0 THEN NaN
        ELSE IF sign = 1 THEN -mag ELSE mag

-----------------------------------------------------------------------------
(* ply.rs *)

\* Standard 3DGS PLY has 62 float properties = 248 bytes per vertex
BYTES_PER_VERTEX == 248

\* f32::exp at the whole numbers -6..6, in fixed point
ExpTable ==
    [n \in -6..6 |->
        CASE n = -6 -> 0 [] n = -5 -> 1 [] n = -4 -> 2 [] n = -3 -> 5
          [] n = -2 -> 14 [] n = -1 -> 37 [] n = 0 -> 100 [] n = 1 -> 272
          [] n = 2 -> 739 [] n = 3 -> 2009 [] n = 4 -> 5460 [] n = 5 -> 14841
          [] n = 6 -> 40343]

\* f32::exp for arguments up to 6.0: the table, linear between its entries,
\* and 0 below it
exp(x) ==
    IF IsNaN(x) THEN NaN
    ELSE IF x < -6 * FixedOne THEN 0
    ELSE LET n == x \div FixedOne
             f == x % FixedOne
         IN  IF f = 0 THEN ExpTable[n]
             ELSE ExpTable[n] + ((ExpTable[n + 1] - ExpTable[n]) * f) \div FixedOne

\* Sigmoid activation for converting logit opacity to [0, 1]
sigmoid(x) ==
    IF IsNaN(x) THEN NaN
    ELSE (FixedOne * FixedOne) \div (FixedOne + exp(-x))

\* Quat::normalize: each component over the length; a zero length gives NaN
normalize(q) ==
    IF \E k \in 1..4 : IsNaN(q[k]) THEN <<NaN, NaN, NaN, NaN>>
    ELSE LET len == ISqrt(q[1] * q[1] + q[2] * q[2] + q[3] * q[3] + q[4] * q[4])
         IN  IF len = 0 THEN <<NaN, NaN, NaN, NaN>>
             ELSE [k \in 1..4 |->
                      IF q[k] < 0 THEN -((-q[k] * FixedOne) \div len)
                      ELSE (q[k] * FixedOne) \div len]

\* SplatsError::Ply(message)
PlyError(msg) == [kind |-> "err", error |-> [type |-> "Ply", msg |-> msg]]

Panic(what) == [kind |-> "panic", what |-> what]

\* b"end_header"
needle == <<101, 110, 100, 95, 104, 101, 97, 100, 101, 114>>

\* a search that takes the whole input for the header when it finds no
\* "end_header"
find_header_end_or_all(data) ==
    LET at == Position(data, needle)
    IN  [kind |-> "ok", val |-> IF at.some THEN at.val ELSE Len(data)]

\* Find the byte offset of "end_header" in the data
find_header_end(data) ==
    LET at == Position(data, needle)
    IN  IF at.some THEN [kind |-> "ok", val |-> at.val]
        ELSE PlyError("No end_header found")

\* "element vertex"
ElementVertex == <<101, 108, 101, 109, 101, 110, 116, 32, 118, 101, 114, 116, 101, 120>>

\* the first line from index i on that starts with "element vertex" decides
RECURSIVE VertexCountFrom(_, _)
VertexCountFrom(ls, i) ==
    IF i > Len(ls) THEN PlyError("No vertex element found")
    ELSE IF starts_with(ls[i], ElementVertex)
    THEN LET toks  == split_whitespace(ls[i])
             count == IF Len(toks) >= 3 THEN parse_usize(toks[3]) ELSE None
         IN  IF count.some THEN [kind |-> "ok", val |-> count.val]
             ELSE PlyError("Invalid vertex count")
    ELSE VertexCountFrom(ls, i + 1)

\* Parse vertex count from PLY header
parse_vertex_count(header) == VertexCountFrom(lines(header), 1)

\* "format binary_little_endian"
FormatBinary ==
    <<102, 111, 114, 109, 97, 116, 32, 98, 105, 110, 97, 114, 121, 95, 108, 105,
      116, 116, 108, 101, 95, 101, 110, 100, 105, 97, 110>>

\* read_f32: the f32 at byte offset o of a vertex record
read_f32(vertex, o) ==
    F32FromLeBytes(<<vertex[o + 1], vertex[o + 2], vertex[o + 3], vertex[o + 4]>>)

\* the body of parse_binary's loop: the splat of one 248-byte record
BinaryVertex(vertex) ==
    [position |-> <<read_f32(vertex, 0), read_f32(vertex, 4), read_f32(vertex, 8)>>,
     sh |-> [j \in 1..48 |->
                IF j = 1 THEN read_f32(vertex, 24)
                ELSE IF j = 2 THEN read_f32(vertex, 28)
                ELSE IF j = 3 THEN read_f32(vertex, 32)
                ELSE read_f32(vertex, 36 + (j - 4) * 4)],
     opacity |-> sigmoid(read_f32(vertex, 216)),
     scale |-> <<exp(read_f32(vertex, 220)), exp(read_f32(vertex, 224)),
                 exp(read_f32(vertex, 228))>>,
     rotation |-> normalize(<<read_f32(vertex, 236), read_f32(vertex, 240),
                              read_f32(vertex, 244), read_f32(vertex, 232)>>)]

\* GaussianCloud::with_capacity(count) does not return when a vector of count
\* elements cannot be had: Vec::with_capacity panics with "capacity overflow"
\* once the bytes asked for exceed isize::MAX, and sh_coeffs has the largest
\* element, 192 bytes (a smaller vector that cannot be allocated aborts instead)
WithCapacityPanics(count) == count * 192 > IsizeMax

\* parse_binary's loop from vertex i (0-based) on
RECURSIVE BinaryLoop(_, _, _, _)
BinaryLoop(data, count, i, c) ==
    IF i = count THEN [kind |-> "ok", cloud |-> [c EXCEPT !.count = count]]
    ELSE LET offset == i * BYTES_PER_VERTEX
         IN  IF offset + BYTES_PER_VERTEX > Len(data)
             THEN Panic("range end index out of range for slice")
             ELSE LET v == BinaryVertex(SubSeq(data, offset + 1, offset + BYTES_PER_VERTEX))
                  IN  BinaryLoop(data, count, i + 1,
                                 PushSplat(c, v.position, v.opacity, v.scale,
                                           v.rotation, v.sh))

\* count * BYTES_PER_VERTEX as the build computes it: None when the product
\* overflows in a build with overflow checks, the wrapped product without them
expected_size(count, checked) ==
    IF count * BYTES_PER_VERTEX <= UsizeMax THEN Some(count * BYTES_PER_VERTEX)
    ELSE IF checked THEN None
    ELSE Some((count * BYTES_PER_VERTEX) % (UsizeMax + 1))


\* Parse binary little-endian PLY data
parse_binary(data, count, checked) ==
    LET expected == expected_size(count, checked)
    IN  IF ~expected.some THEN Panic("attempt to multiply with overflow")
        ELSE IF Len(data) < expected.val THEN PlyError("Not enough data")
        ELSE IF WithCapacityPanics(count) THEN Panic("capacity overflow")
        ELSE BinaryLoop(data, count, 0, with_capacity)

\* line.split_whitespace().filter_map(|s| s.parse().ok()).collect()
FilterParsed(toks) ==
    LET parsed == SelectSeq(toks, LAMBDA tok : parse_f32(tok).some)
    IN  [k \in 1..Len(parsed) |-> parse_f32(parsed[k]).val]

\* the splat of one line's values with the quaternion stored in file order
AsciiVertexFileOrder(values) ==
    [position |-> <<values[1], values[2], values[3]>>,
     sh |-> [j \in 1..48 |-> values[6 + j]],
     opacity |-> sigmoid(values[55]),
     scale |-> <<exp(values[56]), exp(values[57]), exp(values[58])>>,
     rotation |-> normalize(<<values[59], values[60], values[61], values[62]>>)]

\* the body of parse_ascii's loop: the splat of one line's values
AsciiVertex(values) ==
    [position |-> <<values[1], values[2], values[3]>>,
     sh |-> [j \in 1..48 |->
                IF j = 1 THEN values[7]
                ELSE IF j = 2 THEN values[8]
                ELSE IF j = 3 THEN values[9]
                ELSE values[10 + (j - 4)]],
     opacity |-> sigmoid(values[55]),
     scale |-> <<exp(values[56]), exp(values[57]), exp(values[58])>>,
     rotation |-> normalize(<<values[60], values[61], values[62], values[59]>>)]

\* parse_ascii's loop over the lines taken, from line i (1-based) on
RECURSIVE AsciiLoop(_, _, _)
AsciiLoop(taken, i, c) ==
    IF i > Len(taken) THEN [kind |-> "ok", cloud |-> [c EXCEPT !.count = Len(c.positions)]]
    ELSE LET values == FilterParsed(split_whitespace(taken[i]))
         IN  IF Len(values) < 62
             THEN [kind |-> "err",
                   error |-> [type |-> "Ply", msg |-> "Line: expected 62 properties",
                              line |-> i, got |-> Len(values)]]
             ELSE LET v == AsciiVertex(values)
                  IN  AsciiLoop(taken, i + 1,
                                PushSplat(c, v.position, v.opacity, v.scale,
                                          v.rotation, v.sh))

\* Parse ASCII PLY data
parse_ascii(content, count) ==
    IF WithCapacityPanics(count) THEN Panic("capacity overflow")
    ELSE LET ls == lines(content)
             taken == IF Len(ls) <= count THEN ls ELSE SubSeq(ls, 1, count)
         IN  AsciiLoop(taken, 1, with_capacity)

\* &data[body_start..] is in range
BodySliceInRange(data, body_start) == body_start <= Len(data)

\* Parse PLY file bytes into a GaussianCloud
parse(data, checked) ==
    LET header_end == find_header_end(data)
    IN  IF header_end.kind = "err" THEN header_end
        ELSE
        LET header == SubSeq(data, 1, header_end.val)
        IN  IF ~from_utf8_ok(header) THEN PlyError("Invalid UTF-8 in header")
            ELSE
            LET vertex_count == parse_vertex_count(header)
                is_binary == contains(header, FormatBinary)
                body_start == header_end.val + Len(needle) + 1
                body == SubSeq(data, body_start + 1, Len(data))
            IN  IF vertex_count.kind = "err" THEN vertex_count
                ELSE IF ~BodySliceInRange(data, body_start)
                THEN Panic("range start index out of range for slice")
                ELSE IF is_binary
                THEN parse_binary(body, vertex_count.val, checked)
                ELSE IF ~from_utf8_ok(body)
                THEN PlyError("Invalid UTF-8 in ASCII PLY body")
                ELSE parse_ascii(body, vertex_count.val)

-----------------------------------------------------------------------------
(* Bytes of numbers and text *)

\* n.to_le_bytes() of a u32; the top byte keeps what `as u32` keeps of a
\* wider number
u32_to_le_bytes(n) ==
    <<n % 256, (n \div 256) % 256, (n \div 65536) % 256, (n \div 16777216) % 256>>

\* u32::from_le_bytes
u32_from_le_bytes(b) == b[1] + b[2] * 256 + b[3] * 65536 + b[4] * 16777216

\* the two bytes of an i16, in two's complement
i16_to_le_bytes(q) ==
    LET t == IF q < 0 THEN q + 65536 ELSE q
    IN  <<t % 256, t \div 256>>

\* the exponent k of a positive f32 a: 2^k <= a < 2^(k+1)
Exponent(a) ==
    CHOOSE k \in -7..23 :
        IF k >= 0 THEN a >= FixedOne * 2^k /\ (k = 23 \/ a < FixedOne * 2^(k + 1))
        ELSE a * 2^(-k) >= FixedOne /\ a * 2^(-k) < 2 * FixedOne

\* f32::to_le_bytes, from fixed point: the inverse of F32FromLeBytes on the
\* values the fixed point holds
F32ToLeBytes(v) ==
    IF IsNaN(v) THEN <<0, 0, 192, 127>>
    ELSE IF v = 0 THEN <<0, 0, 0, 0>>
    ELSE LET sign == IF v < 0 THEN 1 ELSE 0
             a    == IF v < 0 THEN -v ELSE v
             k    == Exponent(a)
             full == (a * 2^(23 - k) + (FixedOne - 1)) \div FixedOne
             e    == IF full >= 16777216 THEN k + 128 ELSE k + 127
             mant == IF full >= 16777216 THEN 0 ELSE full - 8388608
         IN  <<mant % 256, (mant \div 256) % 256, (e % 2) * 128 + mant \div 65536,
               sign * 128 + e \div 2>>

\* the concatenation of a sequence of byte strings
RECURSIVE Concat(_)
Concat(parts) == IF parts = <<>> THEN <<>> ELSE Head(parts) \o Concat(Tail(parts))

\* the decimal digits of a natural number
RECURSIVE Decimal(_)
Decimal(n) == IF n < 10 THEN <<48 + n>> ELSE Append(Decimal(n \div 10), 48 + (n % 10))

\* cast_slice of a Vec<[f32; N]>: the little-endian bytes of every component
CastF32(vectors) ==
    Concat([i \in 1..Len(vectors) |->
                Concat([k \in 1..Len(vectors[i]) |-> F32ToLeBytes(vectors[i][k])])])

\* std::iter::repeat(b).take(n)
Repeat(b, n) == [k \in 1..n |-> b]

\* the UTF-8 bytes of the string literals of gltf.rs
Utf8(s) ==
    CASE s = "accessors" -> <<97, 99, 99, 101, 115, 115, 111, 114, 115>>
      [] s = "asset" -> <<97, 115, 115, 101, 116>>
      [] s = "bufferView" -> <<98, 117, 102, 102, 101, 114, 86, 105, 101, 119>>
      [] s = "bufferViews" -> <<98, 117, 102, 102, 101, 114, 86, 105, 101, 119, 115>>
      [] s = "buffers" -> <<98, 117, 102, 102, 101, 114, 115>>
      [] s = "buffer" -> <<98, 117, 102, 102, 101, 114>>
      [] s = "byteLength" -> <<98, 121, 116, 101, 76, 101, 110, 103, 116, 104>>
      [] s = "byteOffset" -> <<98, 121, 116, 101, 79, 102, 102, 115, 101, 116>>
      [] s = "byteStride" -> <<98, 121, 116, 101, 83, 116, 114, 105, 100, 101>>
      [] s = "componentType" -> <<99, 111, 109, 112, 111, 110, 101, 110, 116, 84, 121, 112, 101>>
      [] s = "count" -> <<99, 111, 117, 110, 116>>
      [] s = "type" -> <<116, 121, 112, 101>>
      [] s = "min" -> <<109, 105, 110>>
      [] s = "max" -> <<109, 97, 120>>
      [] s = "normalized" -> <<110, 111, 114, 109, 97, 108, 105, 122, 101, 100>>
      [] s = "name" -> <<110, 97, 109, 101>>
      [] s = "extensions" -> <<101, 120, 116, 101, 110, 115, 105, 111, 110, 115>>
      [] s = "EXT_meshopt_compression" -> <<69, 88, 84, 95, 109, 101, 115, 104, 111, 112, 116, 95, 99, 111, 109, 112, 114, 101, 115, 115, 105, 111, 110>>
      [] s = "mode" -> <<109, 111, 100, 101>>
      [] s = "ATTRIBUTES" -> <<65, 84, 84, 82, 73, 66, 85, 84, 69, 83>>
      [] s = "extensionsUsed" -> <<101, 120, 116, 101, 110, 115, 105, 111, 110, 115, 85, 115, 101, 100>>
      [] s = "meshes" -> <<109, 101, 115, 104, 101, 115>>
      [] s = "primitives" -> <<112, 114, 105, 109, 105, 116, 105, 118, 101, 115>>
      [] s = "attributes" -> <<97, 116, 116, 114, 105, 98, 117, 116, 101, 115>>
      [] s = "nodes" -> <<110, 111, 100, 101, 115>>
      [] s = "mesh" -> <<109, 101, 115, 104>>
      [] s = "scene" -> <<115, 99, 101, 110, 101>>
      [] s = "scenes" -> <<115, 99, 101, 110, 101, 115>>
      [] s = "generator" -> <<103, 101, 110, 101, 114, 97, 116, 111, 114>>
      [] s = "stereos" -> <<115, 116, 101, 114, 101, 111, 115>>
      [] s = "version" -> <<118, 101, 114, 115, 105, 111, 110>>
      [] s = "2.0" -> <<50, 46, 48>>
      [] s = "uri" -> <<117, 114, 105>>
      [] s = "main_buffer" -> <<109, 97, 105, 110, 95, 98, 117, 102, 102, 101, 114>>
      [] s = "gaussian_splats" -> <<103, 97, 117, 115, 115, 105, 97, 110, 95, 115, 112, 108, 97, 116, 115>>
      [] s = "GaussianSplats" -> <<71, 97, 117, 115, 115, 105, 97, 110, 83, 112, 108, 97, 116, 115>>
      [] s = "Scene" -> <<83, 99, 101, 110, 101>>
      [] s = "KHR_gaussian_splatting" -> <<75, 72, 82, 95, 103, 97, 117, 115, 115, 105, 97, 110, 95, 115, 112, 108, 97, 116, 116, 105, 110, 103>>
      [] s = "KHR_mesh_quantization" -> <<75, 72, 82, 95, 109, 101, 115, 104, 95, 113, 117, 97, 110, 116, 105, 122, 97, 116, 105, 111, 110>>
      [] s = "POSITION" -> <<80, 79, 83, 73, 84, 73, 79, 78>>
      [] s = "COLOR_0" -> <<67, 79, 76, 79, 82, 95, 48>>
      [] s = "_ROTATION" -> <<95, 82, 79, 84, 65, 84, 73, 79, 78>>
      [] s = "_SCALE" -> <<95, 83, 67, 65, 76, 69>>
      [] s = "_SH_COEFFICIENTS" -> <<95, 83, 72, 95, 67, 79, 69, 70, 70, 73, 67, 73, 69, 78, 84, 83>>
      [] s = "_SH_COEFFICIENTS_" -> <<95, 83, 72, 95, 67, 79, 69, 70, 70, 73, 67, 73, 69, 78, 84, 83, 95>>
      [] s = "_view" -> <<95, 118, 105, 101, 119>>
      [] s = "VEC3" -> <<86, 69, 67, 51>>
      [] s = "VEC4" -> <<86, 69, 67, 52>>
      [] s = "data:application/octet-stream;base64," -> <<100, 97, 116, 97, 58, 97, 112, 112, 108, 105, 99, 97, 116, 105, 111, 110, 47, 111, 99, 116, 101, 116, 45, 115, 116, 114, 101, 97, 109, 59, 98, 97, 115, 101, 54, 52, 44>>
      [] s = "null" -> <<110, 117, 108, 108>>
      [] s = "true" -> <<116, 114, 117, 101>>
      [] s = "false" -> <<102, 97, 108, 115, 101>>
      [] s = "glTF" -> <<103, 108, 84, 70>>

\* BASE64 (the standard alphabet)
Base64Char(i) ==
    IF i < 26 THEN 65 + i
    ELSE IF i < 52 THEN 97 + (i - 26)
    ELSE IF i < 62 THEN 48 + (i - 52)
    ELSE IF i = 62 THEN 43 ELSE 47

\* BASE64.encode: three bytes to four characters, '=' padding at the end
Base64Encode(data) ==
    LET groups == (Len(data) + 2) \div 3
        At(j) == IF j <= Len(data) THEN data[j] ELSE 0
        Group(g) ==
            LET a == At(3 * g - 2)
                b == At(3 * g - 1)
                c == At(3 * g)
            IN  <<Base64Char(a \div 4),
                  Base64Char((a % 4) * 16 + b \div 16),
                  IF 3 * g - 1 > Len(data) THEN 61 ELSE Base64Char((b % 16) * 4 + c \div 64),
                  IF 3 * g > Len(data) THEN 61 ELSE Base64Char(c % 64)>>
    IN  Concat([g \in 1..groups |-> Group(g)])

-----------------------------------------------------------------------------
(* serde_json *)

\* serde_json::Value, tagged: numbers, f32 numbers, booleans, strings (as
\* bytes), arrays, and objects (as sequences of <<key, value>>)
JNum(n) == [t |-> "num", v |-> n]

JF32(x) == [t |-> "f32", v |-> x]

JStr(bytes) == [t |-> "str", v |-> bytes]

JBool(b) == [t |-> "bool", v |-> b]

JArr(elements) == [t |-> "arr", v |-> elements]

JObj(members) == [t |-> "obj", v |-> members]

\* one member of an object, and a member that is there only when present
Member(key, value) == << <<Utf8(key), value>> >>

Optional(present, key, value) == IF present THEN Member(key, value) ELSE <<>>

\* a float as JSON text: "null" for NaN, else the integer part, a point and
\* the hundredths it has (the further digits of the f64 are not kept)
F32Json(x) ==
    IF IsNaN(x) THEN Utf8("null")
    ELSE LET a == IF x < 0 THEN -x ELSE x
             f == a % FixedOne
             frac == IF f % 10 = 0 THEN Decimal(f \div 10)
                     ELSE Decimal(f \div 10) \o Decimal(f % 10)
         IN  (IF x < 0 THEN <<45>> ELSE <<>>) \o Decimal(a \div FixedOne) \o <<46>> \o frac

\* indentation of serde_json's pretty printer: two spaces per level
Indent(depth) == Repeat(32, 2 * depth)

\* the elements' texts with a separator between them
RECURSIVE Join(_, _, _)
Join(texts, sep, i) ==
    IF i > Len(texts) THEN <<>>
    ELSE IF i = Len(texts) THEN texts[i]
    ELSE texts[i] \o sep \o Join(texts, sep, i + 1)

\* serde_json::to_string (pretty FALSE) and serde_json::to_string_pretty
\* (pretty TRUE) of a value at a nesting depth
RECURSIVE Serialize(_, _, _)
Serialize(value, pretty, depth) ==
    LET open(c)  == IF pretty THEN <<c, 10>> \o Indent(depth + 1) ELSE <<c>>
        close(c) == IF pretty THEN <<10>> \o Indent(depth) \o <<c>> ELSE <<c>>
        sep      == IF pretty THEN <<44, 10>> \o Indent(depth + 1) ELSE <<44>>
        colon    == IF pretty THEN <<58, 32>> ELSE <<58>>
    IN  CASE value.t = "num" -> Decimal(value.v)
          [] value.t = "f32" -> F32Json(value.v)
          [] value.t = "bool" -> IF value.v THEN Utf8("true") ELSE Utf8("false")
          [] value.t = "str" -> <<34>> \o value.v \o <<34>>
          [] value.t = "arr" ->
                IF value.v = <<>> THEN <<91, 93>>
                ELSE open(91)
                     \o Join([i \in 1..Len(value.v) |->
                                 Serialize(value.v[i], pretty, depth + 1)], sep, 1)
                     \o close(93)
          [] value.t = "obj" ->
                IF value.v = <<>> THEN <<123, 125>>
                ELSE open(123)
                     \o Join([i \in 1..Len(value.v) |->
                                 <<34>> \o value.v[i][1] \o <<34>> \o colon
                                 \o Serialize(value.v[i][2], pretty, depth + 1)], sep, 1)
                     \o close(125)

to_string(value) == Serialize(value, FALSE, 0)

to_string_pretty(value) == Serialize(value, TRUE, 0)

-----------------------------------------------------------------------------
(* gltf.rs *)

\* SH coefficient for converting DC to color, 0.282_094_79, in fixed point
SH_C0 == 28

\* f32::MAX, as far as the fixed point reaches
F32_MAX == 900000000

\* f32::min and f32::max: a NaN operand yields the other one
F32Min(a, b) == IF IsNaN(a) THEN b ELSE IF IsNaN(b) THEN a ELSE IF a < b THEN a ELSE b

F32Max(a, b) == IF IsNaN(a) THEN b ELSE IF IsNaN(b) THEN a ELSE IF a > b THEN a ELSE b

\* f32::clamp: NaN stays NaN
Clamp(x, lo, hi) == IF IsNaN(x) THEN NaN ELSE IF x < lo THEN lo ELSE IF x > hi THEN hi ELSE x

\* Convert SH DC coefficients and opacity to RGBA
sh_to_rgba(sh, opacity) ==
    <<Clamp(F32Add(F32Mul(sh[1], SH_C0), FixedOne \div 2), 0, FixedOne),
      Clamp(F32Add(F32Mul(sh[2], SH_C0), FixedOne \div 2), 0, FixedOne),
      Clamp(F32Add(F32Mul(sh[3], SH_C0), FixedOne \div 2), 0, FixedOne),
      opacity>>

\* (c * 255.0).round() as u8: the cast saturates, and NaN becomes 0
RoundAsU8(c) ==
    IF IsNaN(c) THEN 0
    ELSE LET r == (c * 255 + FixedOne \div 2) \div FixedOne
         IN  IF c < 0 THEN 0 ELSE IF r > 255 THEN 255 ELSE r

\* the quotient rounded toward zero, as a float-to-integer cast rounds
TruncDiv(a, b) == IF a < 0 THEN -((-a) \div b) ELSE a \div b

\* the closure normalize of the position quantizer: a component to i16
quantize_normalize(val, min, max) ==
    IF ~IsNaN(min) /\ ~IsNaN(max) /\ F32Abs(F32Sub(max, min)) < 1 THEN 0
    ELSE IF IsNaN(val) \/ IsNaN(min) \/ IsNaN(max) THEN 0
    ELSE LET normalized == TruncDiv((val - min) * 2 * FixedOne, max - min) - FixedOne
             scaled == Clamp(normalized * 32767, -32767 * FixedOne, 32767 * FixedOne)
         IN  TruncDiv(scaled, FixedOne)

\* the fold of compute_bounds from position i on
RECURSIVE BoundsFold(_, _, _, _)
BoundsFold(positions, i, min, max) ==
    IF i > Len(positions) THEN <<min, max>>
    ELSE BoundsFold(positions, i + 1,
                    [k \in 1..3 |-> F32Min(min[k], positions[i][k])],
                    [k \in 1..3 |-> F32Max(max[k], positions[i][k])])

\* Compute min/max bounds for positions
compute_bounds(positions) ==
    IF positions = <<>> THEN <<(<<0, 0, 0>>), (<<0, 0, 0>>)>>
    ELSE BoundsFold(positions, 1, <<F32_MAX, F32_MAX, F32_MAX>>,
                    <<-F32_MAX, -F32_MAX, -F32_MAX>>)

\* no padding at all
PaddingNone(len) == 0

\* padding that adds four bytes to a length that is already aligned
PaddingOfFour(len) == 4 - (len % 4)

\* (4 - (len % 4)) % 4: the bytes that pad a length to a multiple of four
Padding(len) == (4 - (len % 4)) % 4

\* encode_vertex_buffer of the meshopt library on the padded vertices of
\* padded_stride bytes each, by the library's behaviour lib: it fails, or it
\* writes a stream that is one byte longer than the data, half as long, or two
\* bytes shorter, or (the library codes the byte deltas of consecutive
\* vertices) a stream whose length depends on the data: the first vertex,
\* then of every later vertex the number of bytes that differ from the vertex
\* before, and each such byte after its index
encode_vertex_buffer(padded_data, padded_stride, lib) ==
    CASE lib = "fails" -> None
      [] lib = "grows" -> Some(<<160>> \o padded_data)
      [] lib = "halves" -> Some(<<160>> \o SubSeq(padded_data, 1, Len(padded_data) \div 2 - 1))
      [] lib = "trims" -> Some(<<160>> \o SubSeq(padded_data, 1, Len(padded_data) - 3))
      [] lib = "deltas" ->
            Some(<<160>> \o SubSeq(padded_data, 1, padded_stride)
                 \o Concat([i \in 1..(Len(padded_data) \div padded_stride - 1) |->
                        LET changed == {j \in 1..padded_stride :
                                          padded_data[i * padded_stride + j]
                                            # padded_data[(i - 1) * padded_stride + j]}
                        IN  <<Cardinality(changed)>>
                            \o Concat([m \in 1..Cardinality(changed) |->
                                   <<Ascending(changed)[m] - 1,
                                     padded_data[i * padded_stride + Ascending(changed)[m]]>>])]))

\* a test that also takes a stream as long as the data
bytes_written_not_more(bytes_written, data_len) == bytes_written <= data_len

\* if bytes_written < data.len()
bytes_written_less(bytes_written, data_len) == bytes_written < data_len

\* Compress vertex buffer data using meshopt (if feature enabled)
compress_vertex_buffer(data, vertex_stride, vertex_count, lib) ==
    IF lib = "off" THEN None
    ELSE IF vertex_stride = 0 \/ vertex_count = 0 \/ data = <<>> THEN None
    ELSE IF Len(data) # vertex_count * vertex_stride THEN None
    ELSE
    LET padded_stride == IF vertex_stride % 4 # 0
                         THEN vertex_stride + (4 - (vertex_stride % 4))
                         ELSE vertex_stride
        padded_data ==
            IF padded_stride # vertex_stride
            THEN Concat([i \in 1..vertex_count |->
                             SubSeq(data, (i - 1) * vertex_stride + 1, i * vertex_stride)
                             \o Repeat(0, padded_stride - vertex_stride)])
            ELSE data
        u32_count == padded_stride \div 4
        encoded == IF u32_count \in 1..4 THEN encode_vertex_buffer(padded_data, padded_stride, lib)
                   ELSE None
    IN  IF encoded.some /\ bytes_written_less(Len(encoded.val), Len(data))
        THEN Some([data |-> encoded.val, original_size |-> Len(data),
                   compressed_size |-> Len(encoded.val)])
        ELSE None

\* what build_gltf has built so far
Builder ==
    [buffer_data |-> <<>>, accessors |-> <<>>, buffer_views |-> <<>>,
     compression_stats |->
        [compressed_count |-> 0, skipped_count |-> 0, original_size |-> 0,
         compressed_size |-> 0, details |-> <<>>]]

\* the part of add_accessor after the attempt to compress: statistics, the
\* bytes, the buffer view and the accessor
PushView(b, data, component_type, type_, min, max, normalized, vertex_stride, attribute_name, count, use_meshopt, compressed) ==
    LET offset == Len(b.buffer_data) + Padding(Len(b.buffer_data))
        used_meshopt == compressed.some
        final_data == IF used_meshopt THEN compressed.val.data ELSE data
        original_size == Len(data)
        compressed_size == IF used_meshopt THEN compressed.val.compressed_size ELSE Len(data)
        detail == [attribute |-> attribute_name,
                   original_size |-> original_size,
                   compressed_size |-> IF used_meshopt THEN compressed_size ELSE 0,
                   ratio |-> IF used_meshopt
                             THEN (original_size * FixedOne) \div compressed_size
                             ELSE FixedOne]
        view == [buffer |-> 0,
                 byte_offset |-> Some(offset),
                 byte_length |-> Len(final_data),
                 byte_stride |-> None,
                 extensions |->
                    IF used_meshopt
                    THEN Some([buffer |-> 0, byteOffset |-> offset,
                               byteLength |-> Len(final_data),
                               byteStride |-> vertex_stride, count |-> count,
                               mode |-> "ATTRIBUTES"])
                    ELSE None,
                 name |-> Utf8(attribute_name) \o Utf8("_view")]
        accessor == [buffer_view |-> Some(Len(b.buffer_views)),
                     byte_offset |-> None,
                     component_type |-> component_type,
                     count |-> count,
                     type_ |-> type_,
                     min |-> min,
                     max |-> max,
                     normalized |-> normalized,
                     name |-> Utf8(attribute_name)]
    IN  [buffer_data |->
            b.buffer_data \o Repeat(0, Padding(Len(b.buffer_data))) \o final_data,
         accessors |-> Append(b.accessors, accessor),
         buffer_views |-> Append(b.buffer_views, view),
         compression_stats |->
            IF ~use_meshopt THEN b.compression_stats
            ELSE IF used_meshopt
            THEN [b.compression_stats EXCEPT
                     !.compressed_count = @ + 1,
                     !.original_size = @ + original_size,
                     !.compressed_size = @ + compressed_size,
                     !.details = Append(@, detail)]
            ELSE IF vertex_stride > 0
            THEN [b.compression_stats EXCEPT
                     !.skipped_count = @ + 1,
                     !.original_size = @ + original_size,
                     !.compressed_size = @ + original_size,
                     !.details = Append(@, detail)]
            ELSE [b.compression_stats EXCEPT !.details = Append(@, detail)]]

\* the closure add_accessor: align, try to compress if meshopt is enabled,
\* then add the buffer view and its accessor; the accessor's index is the
\* length of accessors before the call
add_accessor(b, data, component_type, type_, min, max, normalized, vertex_stride, attribute_name, count, use_meshopt, lib) ==
    PushView(b, data, component_type, type_, min, max, normalized, vertex_stride,
             attribute_name, count, use_meshopt,
             IF use_meshopt /\ vertex_stride > 0
             THEN compress_vertex_buffer(data, vertex_stride, count, lib)
             ELSE None)

\* the positions quantized but written as four bytes a component
QuantizedPositionsWide(positions, min_p, max_p) ==
    Concat([i \in 1..Len(positions) |->
        Concat([k \in 1..3 |->
            i16_to_le_bytes(quantize_normalize(positions[i][k], min_p[k], max_p[k]))
            \o (IF quantize_normalize(positions[i][k], min_p[k], max_p[k]) < 0
                THEN <<255, 255>> ELSE <<0, 0>>)])])

\* the positions as normalized i16, three to a splat
QuantizedPositions(positions, min_p, max_p) ==
    Concat([i \in 1..Len(positions) |->
        Concat([k \in 1..3 |->
            i16_to_le_bytes(quantize_normalize(positions[i][k], min_p[k], max_p[k]))])])

\* the position accessor for the bounds computed
PositionAccessor(b, gcloud, cfg, lib, min_p, max_p) ==
    IF cfg.quantize_positions
    THEN add_accessor(b, QuantizedPositions(gcloud.positions, min_p, max_p),
             "I16", "VEC3", Some(min_p), Some(max_p), TRUE, 6, "POSITION",
             gcloud.count, cfg.meshopt_compression, lib)
    ELSE add_accessor(b, CastF32(gcloud.positions),
             "F32", "VEC3", Some(min_p), Some(max_p), FALSE, 12, "POSITION",
             gcloud.count, cfg.meshopt_compression, lib)

\* POSITION - either f32 or quantized i16
AddPosition(b, gcloud, cfg, lib) ==
    PositionAccessor(b, gcloud, cfg, lib, compute_bounds(gcloud.positions)[1],
                     compute_bounds(gcloud.positions)[2])

\* the colours of the splats: sh_coeffs zipped with opacities
Colors(gcloud) ==
    [i \in 1..(IF Len(gcloud.sh_coeffs) < Len(gcloud.opacities)
               THEN Len(gcloud.sh_coeffs) ELSE Len(gcloud.opacities)) |->
        sh_to_rgba(gcloud.sh_coeffs[i], gcloud.opacities[i])]

\* the colours quantized to u8, four to a splat
QuantizedColors(colors) ==
    Concat([i \in 1..Len(colors) |-> [k \in 1..4 |-> RoundAsU8(colors[i][k])]])

\* COLOR_0 (VEC4)
AddColor(b, gcloud, cfg, lib) ==
    IF cfg.quantize_colors
    THEN add_accessor(b, QuantizedColors(Colors(gcloud)),
             "U8", "VEC4", None, None, TRUE, 4, "COLOR_0",
             gcloud.count, cfg.meshopt_compression, lib)
    ELSE add_accessor(b, CastF32(Colors(gcloud)),
             "F32", "VEC4", None, None, FALSE, 16, "COLOR_0",
             gcloud.count, cfg.meshopt_compression, lib)

\* _ROTATION (VEC4 f32) - quaternion as [x, y, z, w]
AddRotation(b, gcloud, cfg, lib) ==
    add_accessor(b, CastF32(gcloud.rotations), "F32", "VEC4", None, None, FALSE, 16,
                 "_ROTATION", gcloud.count, cfg.meshopt_compression, lib)

\* _SCALE (VEC3 f32)
AddScale(b, gcloud, cfg, lib) ==
    add_accessor(b, CastF32(gcloud.scales), "F32", "VEC3", None, None, FALSE, 12,
                 "_SCALE", gcloud.count, cfg.meshopt_compression, lib)

\* _SH_COEFFICIENTS: one buffer view of 48 floats per splat, never compressed,
\* and twelve VEC4 accessors into it
AddShCoefficients(b, gcloud) ==
    LET aligned == b.buffer_data \o Repeat(0, Padding(Len(b.buffer_data)))
        view == [buffer |-> 0,
                 byte_offset |-> Some(Len(aligned)),
                 byte_length |-> Len(CastF32(gcloud.sh_coeffs)),
                 byte_stride |-> Some(192),
                 extensions |-> None,
                 name |-> Utf8("_SH_COEFFICIENTS") \o Utf8("_view")]
        sh_accessors ==
            [j \in 1..12 |->
                [buffer_view |-> Some(Len(b.buffer_views)),
                 byte_offset |-> Some((j - 1) * 16),
                 component_type |-> "F32",
                 count |-> gcloud.count,
                 type_ |-> "VEC4",
                 min |-> None,
                 max |-> None,
                 normalized |-> FALSE,
                 name |-> Utf8("_SH_COEFFICIENTS_") \o Decimal(j - 1)]]
    IN  [b EXCEPT !.buffer_data = aligned \o CastF32(gcloud.sh_coeffs),
                  !.buffer_views = Append(@, view),
                  !.accessors = @ \o sh_accessors]

\* the primitive's attributes: semantic and accessor index, in the order of
\* the BTreeMap (the custom semantics first, by name, then POSITION, COLOR_0)
Attributes(export_full_sh) ==
    <<[semantic |-> Utf8("_ROTATION"), accessor |-> 2],
      [semantic |-> Utf8("_SCALE"), accessor |-> 3]>>
    \o (IF export_full_sh
        THEN [k \in 1..12 |->
                LET i == CASE k = 1 -> 0 [] k = 2 -> 1 [] k = 3 -> 10 [] k = 4 -> 11
                           [] OTHER -> k - 3
                IN  [semantic |-> Utf8("_SH_COEFFICIENTS_") \o Decimal(i),
                     accessor |-> 4 + i]]
        ELSE <<>>)
    \o <<[semantic |-> Utf8("POSITION"), accessor |-> 0],
         [semantic |-> Utf8("COLOR_0"), accessor |-> 1]>>

\* a list that names the compression extension whenever the configuration
\* asks for compression
extensions_used_as_configured(cfg, has_meshopt_compression) ==
    <<"KHR_gaussian_splatting">>
    \o (IF cfg.quantize_positions THEN <<"KHR_mesh_quantization">> ELSE <<>>)
    \o (IF cfg.meshopt_compression THEN <<"EXT_meshopt_compression">> ELSE <<>>)

\* the extensions the document declares it uses
extensions_used(cfg, has_meshopt_compression) ==
    <<"KHR_gaussian_splatting">>
    \o (IF cfg.quantize_positions THEN <<"KHR_mesh_quantization">> ELSE <<>>)
    \o (IF has_meshopt_compression THEN <<"EXT_meshopt_compression">> ELSE <<>>)

\* the document, the buffer and the statistics of what was built
Document(b, cfg) ==
    [root |->
        [accessors |-> b.accessors,
         buffers |-> <<[byte_length |-> Len(b.buffer_data), uri |-> None,
                        name |-> Utf8("main_buffer")]>>,
         buffer_views |-> b.buffer_views,
         attributes |-> Attributes(cfg.export_full_sh),
         extensions_used |->
            extensions_used(cfg, b.compression_stats.compressed_count > 0),
         extensions_required |-> <<>>],
     buffer_data |-> b.buffer_data,
     compression_stats |->
        IF cfg.meshopt_compression THEN Some(b.compression_stats) ELSE None]

\* a builder that leaves the spherical harmonics out whatever the toggle
AddOptionalShNever(b, gcloud, cfg) == b

\* _SH_COEFFICIENTS (optional)
AddOptionalSh(b, gcloud, cfg) ==
    IF cfg.export_full_sh THEN AddShCoefficients(b, gcloud) ELSE b

\* Build the glTF JSON structure and binary buffer
build_gltf(gcloud, cfg, lib) ==
    Document(
        AddOptionalSh(
            AddScale(
                AddRotation(
                    AddColor(
                        AddPosition(Builder, gcloud, cfg, lib),
                        gcloud, cfg, lib),
                    gcloud, cfg, lib),
                gcloud, cfg, lib),
            gcloud, cfg),
        cfg)

\* the glTF numbers of the component types
ComponentTypeCode(component_type) ==
    CASE component_type = "U8" -> 5121
      [] component_type = "I16" -> 5122
      [] component_type = "F32" -> 5126

\* an accessor as JSON
AccessorJson(a) ==
    JObj(Member("bufferView", JNum(a.buffer_view.val))
         \o Optional(a.byte_offset.some, "byteOffset",
                     JNum(IF a.byte_offset.some THEN a.byte_offset.val ELSE 0))
         \o Member("componentType", JNum(ComponentTypeCode(a.component_type)))
         \o Member("count", JNum(a.count))
         \o Optional(a.max.some, "max",
                     JArr(IF a.max.some THEN [k \in 1..3 |-> JF32(a.max.val[k])] ELSE <<>>))
         \o Optional(a.min.some, "min",
                     JArr(IF a.min.some THEN [k \in 1..3 |-> JF32(a.min.val[k])] ELSE <<>>))
         \o Member("name", JStr(a.name))
         \o Optional(a.normalized, "normalized", JBool(a.normalized))
         \o Member("type", JStr(Utf8(a.type_))))

\* the EXT_meshopt_compression object of a compressed buffer view
MeshoptExtJson(ext) ==
    JObj(Member("EXT_meshopt_compression",
                JObj(Member("buffer", JNum(ext.buffer))
                     \o Member("byteLength", JNum(ext.byteLength))
                     \o Member("byteOffset", JNum(ext.byteOffset))
                     \o Member("byteStride", JNum(ext.byteStride))
                     \o Member("count", JNum(ext.count))
                     \o Member("mode", JStr(Utf8(ext.mode))))))

\* a buffer view as JSON
ViewJson(view) ==
    JObj(Member("buffer", JNum(view.buffer))
         \o Member("byteLength", JNum(view.byte_length))
         \o Member("byteOffset", JNum(view.byte_offset.val))
         \o Optional(view.byte_stride.some, "byteStride",
                     JNum(IF view.byte_stride.some THEN view.byte_stride.val ELSE 0))
         \o Member("name", JStr(view.name))
         \o Optional(view.extensions.some, "extensions",
                     IF view.extensions.some THEN MeshoptExtJson(view.extensions.val)
                     ELSE JObj(<<>>)))

\* a buffer as JSON
BufferJson(buffer) ==
    JObj(Member("byteLength", JNum(buffer.byte_length))
         \o Member("name", JStr(buffer.name))
         \o Optional(buffer.uri.some, "uri",
                     JStr(IF buffer.uri.some THEN buffer.uri.val ELSE <<>>)))

\* json::Root as JSON: the fields build_gltf sets; the vectors it leaves empty
\* and the Options it leaves None are not written
RootJson(root) ==
    JObj(Member("accessors",
                JArr([i \in 1..Len(root.accessors) |-> AccessorJson(root.accessors[i])]))
         \o Member("asset", JObj(Member("generator", JStr(Utf8("stereos")))
                                 \o Member("version", JStr(Utf8("2.0")))))
         \o Member("buffers",
                   JArr([i \in 1..Len(root.buffers) |-> BufferJson(root.buffers[i])]))
         \o Member("bufferViews",
                   JArr([i \in 1..Len(root.buffer_views) |-> ViewJson(root.buffer_views[i])]))
         \o Member("scene", JNum(0))
         \o Member("extensionsUsed",
                   JArr([i \in 1..Len(root.extensions_used) |->
                            JStr(Utf8(root.extensions_used[i]))]))
         \o Optional(root.extensions_required # <<>>, "extensionsRequired",
                     JArr([i \in 1..Len(root.extensions_required) |->
                              JStr(Utf8(root.extensions_required[i]))]))
         \o Member("meshes",
                   JArr(<<JObj(Member("name", JStr(Utf8("gaussian_splats")))
                               \o Member("primitives",
                                     JArr(<<JObj(
                                         Member("attributes",
                                             JObj([i \in 1..Len(root.attributes) |->
                                                     <<root.attributes[i].semantic,
                                                       JNum(root.attributes[i].accessor)>>]))
                                         \o Member("mode", JNum(0)))>>)))>>))
         \o Member("nodes", JArr(<<JObj(Member("mesh", JNum(0))
                                        \o Member("name", JStr(Utf8("GaussianSplats"))))>>))
         \o Member("scenes", JArr(<<JObj(Member("name", JStr(Utf8("Scene")))
                                         \o Member("nodes", JArr(<<JNum(0)>>)))>>)))

\* the header's total length without the two chunk headers
total_length_without_chunk_headers(json_length, bin_length) == 12 + json_length + bin_length

\* 12 bytes header, 8 bytes JSON chunk header, JSON data + padding, 8 bytes BIN
\* chunk header, BIN data + padding
total_length(json_length, bin_length) == 12 + 8 + json_length + 8 + bin_length

\* the GLB of a JSON text and a buffer: header, JSON chunk padded with
\* spaces, BIN chunk padded with zeros
GlbBytes(json_bytes, buffer_data) ==
    LET json_padding == Padding(Len(json_bytes))
        json_length == Len(json_bytes) + json_padding
        bin_padding == Padding(Len(buffer_data))
        bin_length == Len(buffer_data) + bin_padding
    IN  Utf8("glTF") \o u32_to_le_bytes(2)
        \o u32_to_le_bytes(total_length(json_length, bin_length))
        \o u32_to_le_bytes(json_length) \o u32_to_le_bytes(1313821514)
        \o json_bytes \o Repeat(32, json_padding)
        \o u32_to_le_bytes(bin_length) \o u32_to_le_bytes(5130562)
        \o buffer_data \o Repeat(0, bin_padding)

\* the ExportResult of a document serialized to json_bytes, with the JSON text
\* and the buffer it was made of
ExportResult(built, json_bytes, data) ==
    [data |-> data,
     compression_stats |-> built.compression_stats,
     root |-> built.root,
     json_bytes |-> json_bytes,
     buffer_data |-> built.buffer_data]

GlbResult(built, json_bytes) ==
    ExportResult(built, json_bytes, GlbBytes(json_bytes, built.buffer_data))

WriteGlb(built) == GlbResult(built, to_string(RootJson(built.root)))

\* Export GaussianCloud to binary GLB format with compression statistics
export_glb_with_stats(gcloud, cfg, lib) == WriteGlb(build_gltf(gcloud, cfg, lib))

\* the document with its buffer embedded as a base64 data URI
Embedded(built) ==
    [built EXCEPT !.root.buffers[1].uri =
        Some(Utf8("data:application/octet-stream;base64,")
             \o Base64Encode(built.buffer_data))]

EmbeddedResult(built, json_bytes) == ExportResult(built, json_bytes, json_bytes)

WriteEmbedded(built) == EmbeddedResult(built, to_string_pretty(RootJson(built.root)))

\* Export GaussianCloud to JSON glTF with embedded base64 buffer and stats
export_gltf_embedded_with_stats(gcloud, cfg, lib) ==
    WriteEmbedded(Embedded(build_gltf(gcloud, cfg, lib)))

-----------------------------------------------------------------------------
(* token.rs *)

\* Validate a JWT token using the provided Ed25519 public key: the claims of a
\* token whose key, signature and expiry are good, else a Token error
validate(tok) ==
    CASE tok.status = "valid" -> [kind |-> "ok", val |-> tok.claims]
      [] tok.status = "bad_key" -> [kind |-> "err", error |-> [type |-> "Token", msg |-> "Invalid public key"]]
      [] tok.status = "bad_token" -> [kind |-> "err", error |-> [type |-> "Token", msg |-> "Invalid token"]]

-----------------------------------------------------------------------------
(* lib.rs *)

\* ExportConfig::default
ExportConfigDefault ==
    [format |-> "Glb", quantize_colors |-> TRUE, export_full_sh |-> FALSE,
     quantize_positions |-> FALSE, meshopt_compression |-> FALSE]

\* a call of a function of the library by Rust code: no ConvertOptions
Called(name) == [name |-> name, options |-> None]

-----------------------------------------------------------------------------
(* stereos-wasm lib.rs *)

\* ConvertOptions::new
ConvertOptionsNew ==
    [format |-> "glb", quantize_colors |-> TRUE, export_full_sh |-> FALSE,
     quantize_positions |-> FALSE, meshopt_compression |-> FALSE, clean_options |-> None]

\* #[derive(Default)] on ConvertOptions: String::default() is the empty
\* string, bool::default() is false, Option::default() is None
ConvertOptionsDefault ==
    [format |-> "", quantize_colors |-> FALSE, export_full_sh |-> FALSE,
     quantize_positions |-> FALSE, meshopt_compression |-> FALSE, clean_options |-> None]

\* options.unwrap_or_default()
unwrap_or_default(options) == IF options.some THEN options.val ELSE ConvertOptionsDefault

\* str::to_lowercase on the format strings a caller sets
to_lowercase(s) ==
    CASE s = "GLTF" -> "gltf"
      [] s = "Gltf" -> "gltf"
      [] s = "GLB" -> "glb"
      [] OTHER -> s

\* let config = ExportConfig { .. } of convert_ply and convert_ply_with_stats
ExportConfigOf(opts) ==
    [format |-> IF to_lowercase(opts.format) = "gltf" THEN "GltfEmbedded" ELSE "Glb",
     quantize_colors |-> opts.quantize_colors,
     export_full_sh |-> opts.export_full_sh,
     quantize_positions |-> opts.quantize_positions,
     meshopt_compression |-> opts.meshopt_compression]

\* opts.clean_options.as_ref().map(CoreCleanOptions::from)
CleanOptionsOf(opts) ==
    IF opts.clean_options.some
    THEN Some([min_opacity |-> opts.clean_options.val.min_opacity,
               min_scale |-> opts.clean_options.val.min_scale,
               outlier_sigma |-> opts.clean_options.val.outlier_sigma])
    ELSE None

\* convert_ply and convert_ply_with_stats
WasmEntryPoints == {"convert_ply", "convert_ply_with_stats"}

-----------------------------------------------------------------------------

\* the value of result before the call returns
NoResult == [kind |-> "none"]

\* SplatsError::QuotaExceeded
QuotaExceededError == [kind |-> "err", error |-> [type |-> "QuotaExceeded"]]

\* SplatsError::FileTooLarge { size, limit }
FileTooLargeError(size, limit) ==
    [kind |-> "err", error |-> [type |-> "FileTooLarge", size |-> size, limit |-> limit]]

\* a quota test that lets every token through
QuotaNeverExceeded(token_claims) == FALSE

\* claims.conversions_remaining == 0
QuotaExceeded(token_claims) == token_claims.conversions_remaining = 0

\* a size test that rejects a file exactly at the limit too
FileTooLargeAtLimit(file_size, token_claims) == file_size >= token_claims.max_file_size

\* file_size > claims.max_file_size
FileTooLarge(file_size, token_claims) == file_size > token_claims.max_file_size

\* the order of stages with the decoder ahead of the size check
NextStageDecodeFirst(stage) ==
    CASE stage = "validate" -> "quota"
      [] stage = "quota" -> "parse"
      [] stage = "parse" -> "size"
      [] stage = "size" -> "clean"
      [] stage = "clean" -> "export"
      [] stage = "export" -> "done"

\* the stage convert_with_clean goes on to when a stage has succeeded
NextStage(stage) ==
    CASE stage = "validate" -> "quota"
      [] stage = "quota" -> "size"
      [] stage = "size" -> "parse"
      [] stage = "parse" -> "clean"
      [] stage = "clean" -> "export"
      [] stage = "export" -> "done"

-----------------------------------------------------------------------------
(* Calls of GaussianCloud::clean on clouds built splat by splat *)

\* the longest cloud cleaned
MaxSplats == 5

\* the longest cloud cleaned that holds a NaN position
MaxNaNSplats == 3

Splat(pos, opacity, scale, tag) ==
    [position |-> pos, opacity |-> opacity, scale |-> scale,
     rotation |-> <<0, 0, 0, FixedOne>>,
     sh |-> [j \in 1..48 |-> IF j = 1 THEN tag ELSE 0]]

\* splats on and around the thresholds 0.5 (opacity) and 0.1 (scale), near
\* the origin and far from it
CleanSplats ==
    { Splat(<<0, 0, 0>>, 100, <<100, 100, 100>>, 1),
      Splat(<<0, -10, 0>>, 50, <<1, 1, 10>>, 2),
      Splat(<<10000, 0, 0>>, 100, <<11, 1, 1>>, 3),
      Splat(<<10000, 0, 0>>, 49, <<9, 9, 9>>, 4),
      Splat(<<0, 0, 10>>, 100, <<9, 9, 9>>, 5) }

\* splats of which one has a position that is not a number
NaNSplats ==
    { Splat(<<0, 0, 0>>, 100, <<100, 100, 100>>, 1),
      Splat(<<NaN, 0, 0>>, 100, <<100, 100, 100>>, 6),
      Splat(<<0, NaN, 0>>, 49, <<9, 9, 9>>, 7) }

\* splats of opacity 1.0 and scale (1,1,1) within 0.1 units of the origin:
\* the origin and the points 0.1 along x and y
ClusterSplats ==
    {Splat(p, 100, <<100, 100, 100>>, 8) :
        p \in {<<0, 0, 0>>, <<10, 0, 0>>, <<-10, 0, 0>>, <<0, 10, 0>>, <<0, -10, 0>>}}

\* make_test_cloud: the cloud holding the given splats
MakeCloud(splats) ==
    [count |-> Len(splats),
     positions |-> [i \in 1..Len(splats) |-> splats[i].position],
     opacities |-> [i \in 1..Len(splats) |-> splats[i].opacity],
     scales |-> [i \in 1..Len(splats) |-> splats[i].scale],
     rotations |-> [i \in 1..Len(splats) |-> splats[i].rotation],
     sh_coeffs |-> [i \in 1..Len(splats) |-> splats[i].sh]]

BoundedSeq(S, n) == UNION {[1..k -> S] : k \in 0..n}

InitClean ==
    /\ entry = Called("clean")
    /\ pc = "clean_call"
    /\ cloud \in {MakeCloud(s) : s \in BoundedSeq(CleanSplats, MaxSplats)}
                 \cup {MakeCloud(s) : s \in BoundedSeq(NaNSplats, MaxNaNSplats)}
                 \cup {MakeCloud(Append(s, Splat(<<10000, 0, 0>>, 100, <<100, 100, 100>>, 9))) :
                         s \in [1..5 -> ClusterSplats]}
    /\ clean_options \in {Some(o) : o \in [min_opacity : {0, 50}, min_scale : {0, 10},
                                            outlier_sigma : {None, Some(300)}]
                                          \cup [min_opacity : {0}, min_scale : {0},
                                                outlier_sigma : {Some(0), Some(Infinity)}]}
    /\ ply_data = <<>>
    /\ token = None
    /\ overflow_checks = FALSE
    /\ meshopt = "off"
    /\ claims = None
    /\ config = ExportConfigDefault
    /\ cleaned = None
    /\ clean_stats = None
    /\ output = <<>>
    /\ result = NoResult
    /\ calls = <<>>

\* let (cleaned, stats) = cloud.clean(&options)
CleanCall ==
    /\ pc = "clean_call"
    /\ \E r \in {clean(cloud, clean_options.val)} :
           IF r.kind = "panic"
           THEN /\ result' = [kind |-> "panic"]
                /\ UNCHANGED <<cleaned, clean_stats>>
           ELSE /\ result' = [kind |-> "ok", after_opacity |-> r.after_opacity,
                               after_scale |-> r.after_scale,
                               keep_indices |-> r.keep_indices]
                /\ cleaned' = Some(r.cloud)
                /\ clean_stats' = Some(r.stats)
    /\ pc' = "clean_done"
    /\ calls' = Append(calls, "clean")
    /\ UNCHANGED <<entry, ply_data, token, overflow_checks, meshopt, claims, config, clean_options,
                   cloud, output>>

NextClean == CleanCall

SpecClean == InitClean /\ [][NextClean]_vars

-----------------------------------------------------------------------------
(* Calls of ply::parse on PLY files put together from header lines, a header
   terminator and a body *)

\* the most vertex records or lines a body holds
MaxVertices == 2

\* a decimal spelling of an f32, for the values the files hold
F32Text(v) ==
    CASE IsNaN(v) -> <<78, 97, 78>> []
      v = 0 -> <<48>> []
      v = 50 -> <<48, 46, 53>> []
      v = 100 -> <<49>> []
      v = -100 -> <<45, 49>> []
      v = 200 -> <<50, 46, 48>> []
      v = 300 -> <<51>> []
      v = 400 -> <<52>> []
      v = 500 -> <<53>> []
      v = 600 -> <<54>> []
      v = 700 -> <<55>>

\* the 62 values of a vertex in file order: x y z, nx ny nz, f_dc_0..2,
\* f_rest_0..44, opacity, scale_0..2, rot_0..3, each group told apart
VertexValues(x, logit, w) ==
    [j \in 1..62 |->
        IF j = 1 THEN x
        ELSE IF j <= 3 THEN 100 * j
        ELSE IF j <= 6 THEN 700
        ELSE IF j <= 9 THEN 100 * (j - 3)
        ELSE IF j <= 54 THEN 100 * (j % 3)
        ELSE IF j = 55 THEN logit
        ELSE IF j <= 58 THEN 100 * (j - 57)
        ELSE IF j = 59 THEN w
        ELSE IF j = 60 THEN 300
        ELSE IF j = 61 THEN 400
        ELSE 0]

\* the k-th vertex of a body: odd ones plain, even ones with a NaN x
FileVertex(k) ==
    IF k % 2 = 1 THEN VertexValues(100, 0, 0) ELSE VertexValues(NaN, 200, 500)

\* a vertex as a 248-byte binary record, and as a line of text
BinaryRecord(values) == Concat([j \in 1..62 |-> F32ToLeBytes(values[j])])

AsciiLine(values, fields) ==
    Concat([j \in 1..fields |-> F32Text(values[j]) \o (IF j < fields THEN <<32>> ELSE <<10>>)])

\* the smallest vertex count whose 248-fold exceeds usize::MAX
OverflowCount == UsizeMax \div BYTES_PER_VERTEX + 1

\* "element vertex <count>\n"
ElementLine(count) == ElementVertex \o <<32>> \o Decimal(count) \o <<10>>

\* a PLY file: "ply\n", "format binary_little_endian 1.0\n" or
\* "format ascii 1.0\n", the element line, the header's terminator, the body
PlyFile(binary, element_line, terminator, body) ==
    <<112, 108, 121, 10>>
    \o (IF binary THEN FormatBinary \o <<32, 49, 46, 48, 10>>
        ELSE <<102, 111, 114, 109, 97, 116, 32, 97, 115, 99, 105, 105, 32, 49, 46, 48, 10>>)
    \o element_line \o terminator \o body

\* element lines with counts small, overflowing and beyond usize, with "abc"
\* for a count, without a count, and none
ElementLines ==
    {ElementLine(n) : n \in (0..MaxVertices) \cup {OverflowCount, UsizeMax + 1}}
    \cup {ElementVertex \o <<32, 97, 98, 99, 10>>, ElementVertex \o <<10>>, <<>>}

\* files with "end_header\n", with "end_header" and with neither; binary
\* bodies of whole records, of a record and a byte, and of a record less a
\* byte; ASCII bodies of lines of 62 values, a line of 61, a line with a token
\* that is no number before 61 values, and a line followed by a byte that is
\* not UTF-8
PlyFiles ==
    {PlyFile(TRUE, e, t, b) :
        e \in ElementLines, t \in {needle \o <<10>>, needle, <<>>},
        b \in {Concat([k \in 1..n |-> BinaryRecord(FileVertex(k))]) : n \in 0..MaxVertices}
              \cup {BinaryRecord(FileVertex(1)) \o <<7>>,
                    SubSeq(BinaryRecord(FileVertex(1)), 1, BYTES_PER_VERTEX - 1)}}
    \cup {PlyFile(FALSE, e, t, b) :
        e \in ElementLines, t \in {needle \o <<10>>, needle, <<>>},
        b \in {Concat([k \in 1..n |-> AsciiLine(FileVertex(k), 62)]) : n \in 0..MaxVertices}
              \cup {AsciiLine(FileVertex(1), 61),
                    AsciiLine(FileVertex(1), 62) \o <<120, 32>> \o AsciiLine(FileVertex(1), 61),
                    AsciiLine(FileVertex(1), 62) \o <<255>>}}

InitPly ==
    /\ entry = Called("parse")
    /\ pc = "parse_call"
    /\ ply_data \in PlyFiles
    /\ overflow_checks \in BOOLEAN
    /\ meshopt = "off"
    /\ token = None
    /\ claims = None
    /\ config = ExportConfigDefault
    /\ clean_options = None
    /\ cloud = None
    /\ cleaned = None
    /\ clean_stats = None
    /\ output = <<>>
    /\ result = NoResult
    /\ calls = <<>>

\* let cloud = ply::parse(data)
ParseCall ==
    /\ pc = "parse_call"
    /\ \E r \in {parse(ply_data, overflow_checks)} :
           /\ result' = (IF r.kind = "ok" THEN [kind |-> "ok"] ELSE r)
           /\ cloud' = (IF r.kind = "ok" THEN Some(r.cloud) ELSE cloud)
    /\ pc' = "parse_done"
    /\ calls' = Append(calls, "parse")
    /\ UNCHANGED <<entry, ply_data, token, overflow_checks, meshopt, claims, config, clean_options,
                   cleaned, clean_stats, output>>

NextPly == ParseCall

SpecPly == InitPly /\ [][NextPly]_vars

-----------------------------------------------------------------------------
(* Calls of export_glb_with_stats on clouds built splat by splat *)

\* the longest cloud exported of splats chosen freely
MaxExportSplats == 2

\* splats with short and long coordinates, a NaN coordinate, and colours in
\* and out of range
ExportSplats ==
    { Splat(<<0, -10, 250>>, 50, <<1, 1, 10>>, 100),
      Splat(<<100, 0, NaN>>, 100, <<37, 100, 272>>, -300),
      Splat(<<-12345, 700, 5>>, 88, <<100, 100, 100>>, 0) }

\* every cloud of these splats, a cloud of four splats whose x is 2.0 and
\* 4.0 in turn, and a cloud of two splats at the origin and a third at x =
\* 4.0, with every ExportConfig of the GLB format, in builds
\* without the meshopt feature and in builds with it, by what the library
\* makes of a vertex buffer
InitGlb ==
    /\ entry = Called("export")
    /\ pc = "export_call"
    /\ cloud \in {MakeCloud(s) : s \in BoundedSeq(ExportSplats, MaxExportSplats)}
                 \cup {MakeCloud([i \in 1..4 |->
                          Splat(<<200 * (2 - (i % 2)), 0, 0>>, 100, <<100, 100, 100>>, 0)]),
                       MakeCloud([i \in 1..3 |->
                          Splat(<<400 * (i \div 3), 0, 0>>, 100, <<100, 100, 100>>, 0)])}
    /\ config \in [format : {"Glb"}, quantize_colors : BOOLEAN, export_full_sh : BOOLEAN,
                    quantize_positions : BOOLEAN, meshopt_compression : BOOLEAN]
    /\ meshopt \in {"off", "fails", "grows", "halves", "trims", "deltas"}
    /\ overflow_checks = FALSE
    /\ ply_data = <<>>
    /\ token = None
    /\ claims = None
    /\ clean_options = None
    /\ cleaned = None
    /\ clean_stats = None
    /\ output = <<>>
    /\ result = NoResult
    /\ calls = <<>>

\* let result = export_glb_with_stats(&cloud, &config)
ExportCall ==
    /\ pc = "export_call"
    /\ \E r \in {export_glb_with_stats(cloud, config, meshopt)} :
           /\ output' = r.data
           /\ result' = [kind |-> "ok", compression_stats |-> r.compression_stats,
                         root |-> r.root, json_len |-> Len(r.json_bytes),
                         buffer_len |-> Len(r.buffer_data)]
    /\ pc' = "export_done"
    /\ calls' = Append(calls, "export")
    /\ UNCHANGED <<entry, ply_data, token, overflow_checks, meshopt, claims, config, clean_options,
                   cloud, cleaned, clean_stats>>

NextGlb == ExportCall

SpecGlb == InitGlb /\ [][NextGlb]_vars

-----------------------------------------------------------------------------
(* Calls of convert_with_clean *)

\* the most conversions a token has left
MaxConversions == 2

\* how far a token's max_file_size lies from the length of the input
SizeMargin == 1

\* binary files that decode, an ASCII file that decodes, an ASCII file with
\* fewer lines than it declares, a file whose body is short, a file without
\* end_header, a file that ends with end_header, and a file whose count times
\* 248 exceeds usize::MAX
ConvertFiles ==
    {PlyFile(TRUE, ElementLine(n), needle \o <<10>>,
             Concat([k \in 1..n |-> BinaryRecord(FileVertex(k))])) : n \in 0..MaxVertices}
    \cup {PlyFile(FALSE, ElementLine(1), needle \o <<10>>, AsciiLine(FileVertex(1), 62)),
          PlyFile(FALSE, ElementLine(2), needle \o <<10>>, AsciiLine(FileVertex(2), 62)),
          PlyFile(TRUE, ElementLine(1), needle \o <<10>>,
                  SubSeq(BinaryRecord(FileVertex(1)), 1, BYTES_PER_VERTEX - 1)),
          PlyFile(TRUE, ElementLine(1), <<>>, BinaryRecord(FileVertex(1))),
          PlyFile(TRUE, ElementLine(1), needle, <<>>),
          PlyFile(TRUE, ElementLine(OverflowCount), needle \o <<10>>,
                  BinaryRecord(FileVertex(1)))}

\* tokens that do not validate, and valid ones with their signed claims
TokensFor(file_size) ==
    {[status |-> s, claims |-> [conversions_remaining |-> 0, max_file_size |-> 0]] :
        s \in {"bad_key", "bad_token"}}
    \cup {[status |-> "valid",
           claims |-> [conversions_remaining |-> n, max_file_size |-> m]] :
            n \in 0..MaxConversions,
            m \in (file_size - SizeMargin)..(file_size + SizeMargin)}

\* the options a caller of the WASM entry points hands over: none, fresh
\* ones, fresh ones with the format set to "GLTF", fresh ones with cleaning
WasmOptions ==
    {None,
     Some(ConvertOptionsNew),
     Some([ConvertOptionsNew EXCEPT !.format = "GLTF"]),
     Some([ConvertOptionsNew EXCEPT
              !.clean_options = Some([min_opacity |-> 60, min_scale |-> 0,
                                      outlier_sigma |-> None])])}

\* convert_with_clean called by Rust code with the default configuration, the
\* embedded format, or a GLB configuration with every option on, and with no
\* cleaning, an opacity filter or an outlier filter
CallsFromRust ==
    /\ entry = Called("convert_with_clean")
    /\ config \in {ExportConfigDefault,
                    [ExportConfigDefault EXCEPT !.format = "GltfEmbedded"],
                    [format |-> "Glb", quantize_colors |-> FALSE, export_full_sh |-> TRUE,
                     quantize_positions |-> TRUE, meshopt_compression |-> TRUE]}
    /\ clean_options \in
          {None,
           Some([min_opacity |-> 60, min_scale |-> 0, outlier_sigma |-> None]),
           Some([min_opacity |-> 0, min_scale |-> 0, outlier_sigma |-> Some(300)])}

\* convert_ply or convert_ply_with_stats called from JavaScript: the
\* configuration convert_with_clean is given is computed from the options
CallsFromWasm ==
    /\ entry \in [name : WasmEntryPoints, options : WasmOptions]
    /\ config = ExportConfigOf(unwrap_or_default(entry.options))
    /\ clean_options = CleanOptionsOf(unwrap_or_default(entry.options))

Init ==
    /\ pc = "validate"
    /\ ply_data \in ConvertFiles
    /\ token \in TokensFor(Len(ply_data))
    /\ CallsFromRust \/ CallsFromWasm
    /\ overflow_checks \in BOOLEAN
    /\ meshopt \in {"off", "halves"}
    /\ claims = None
    /\ cloud = None
    /\ cleaned = None
    /\ clean_stats = None
    /\ output = <<>>
    /\ result = NoResult
    /\ calls = <<>>

\* 1. Validate token
Validate ==
    /\ pc = "validate"
    /\ \E r \in {validate(token)} :
           IF r.kind = "ok"
           THEN /\ claims' = Some(r.val)
                /\ pc' = NextStage("validate")
                /\ UNCHANGED result
           ELSE /\ result' = r
                /\ pc' = "done"
                /\ UNCHANGED claims
    /\ calls' = Append(calls, "validate")
    /\ UNCHANGED <<entry, ply_data, token, overflow_checks, meshopt, config, clean_options, cloud,
                   cleaned, clean_stats, output>>

\* if claims.conversions_remaining == 0 { return Err(SplatsError::QuotaExceeded) }
QuotaCheck ==
    /\ pc = "quota"
    /\ IF QuotaExceeded(claims.val)
       THEN result' = QuotaExceededError /\ pc' = "done"
       ELSE pc' = NextStage("quota") /\ UNCHANGED result
    /\ calls' = Append(calls, "quota")
    /\ UNCHANGED <<entry, ply_data, token, overflow_checks, meshopt, claims, config, clean_options,
                   cloud, cleaned, clean_stats, output>>

\* 2. Check file size limit
SizeCheck ==
    /\ pc = "size"
    /\ IF FileTooLarge(Len(ply_data), claims.val)
       THEN /\ result' = FileTooLargeError(Len(ply_data), claims.val.max_file_size)
            /\ pc' = "done"
       ELSE pc' = NextStage("size") /\ UNCHANGED result
    /\ calls' = Append(calls, "size")
    /\ UNCHANGED <<entry, ply_data, token, overflow_checks, meshopt, claims, config, clean_options,
                   cloud, cleaned, clean_stats, output>>

\* 3. Parse PLY
Decode ==
    /\ pc = "parse"
    /\ \E r \in {parse(ply_data, overflow_checks)} :
           IF r.kind = "ok"
           THEN /\ cloud' = Some(r.cloud)
                /\ pc' = NextStage("parse")
                /\ UNCHANGED result
           ELSE /\ result' = r
                /\ pc' = "done"
                /\ UNCHANGED cloud
    /\ calls' = Append(calls, "parse")
    /\ UNCHANGED <<entry, ply_data, token, overflow_checks, meshopt, claims, config, clean_options,
                   cleaned, clean_stats, output>>

\* a fourth step that cleans with options that remove nothing when none are
\* supplied, and reports the statistics of that
CleanWithDefaults ==
    /\ pc = "clean"
    /\ \E r \in {clean(cloud.val,
                        IF clean_options.some THEN clean_options.val
                        ELSE [min_opacity |-> 0, min_scale |-> 0, outlier_sigma |-> None])} :
           IF r.kind = "panic"
           THEN /\ result' = Panic("called Option::unwrap() on a None value")
                /\ pc' = "done"
                /\ UNCHANGED <<cleaned, clean_stats>>
           ELSE /\ cleaned' = Some(r.cloud)
                /\ clean_stats' = Some(r.stats)
                /\ pc' = NextStage("clean")
                /\ UNCHANGED result
    /\ calls' = Append(calls, "clean")
    /\ UNCHANGED <<entry, ply_data, token, overflow_checks, meshopt, claims, config, clean_options,
                   cloud, output>>

\* 4. Optionally clean the cloud
Clean ==
    /\ pc = "clean"
    /\ IF clean_options.some
       THEN /\ \E r \in {clean(cloud.val, clean_options.val)} :
                  IF r.kind = "panic"
                  THEN /\ result' = Panic("called Option::unwrap() on a None value")
                       /\ pc' = "done"
                       /\ UNCHANGED <<cleaned, clean_stats>>
                  ELSE /\ cleaned' = Some(r.cloud)
                       /\ clean_stats' = Some(r.stats)
                       /\ pc' = NextStage("clean")
                       /\ UNCHANGED result
            /\ calls' = Append(calls, "clean")
       ELSE /\ cleaned' = cloud
            /\ clean_stats' = None
            /\ pc' = NextStage("clean")
            /\ UNCHANGED <<result, calls>>
    /\ UNCHANGED <<entry, ply_data, token, overflow_checks, meshopt, claims, config, clean_options,
                   cloud, output>>

\* 5. Export to glTF/glb
Export ==
    /\ pc = "export"
    /\ \E r \in {IF config.format = "Glb"
                 THEN export_glb_with_stats(cleaned.val, config, meshopt)
                 ELSE export_gltf_embedded_with_stats(cleaned.val, config, meshopt)} :
           /\ output' = r.data
           /\ result' = [kind |-> "ok", clean_stats |-> clean_stats,
                         compression_stats |-> r.compression_stats]
    /\ pc' = NextStage("export")
    /\ calls' = Append(calls, "export")
    /\ UNCHANGED <<entry, ply_data, token, overflow_checks, meshopt, claims, config, clean_options,
                   cloud, cleaned, clean_stats>>

Next == Validate \/ QuotaCheck \/ SizeCheck \/ Decode \/ Clean \/ Export

Spec == Init /\ [][Next]_vars

-----------------------------------------------------------------------------
(* Claims about GaussianCloud::clean, checked under SpecClean *)

Range(seq) == {seq[k] : k \in 1..Len(seq)}

\* clean has returned its cloud and statistics
CleanReturned == pc = "clean_done" /\ result.kind = "ok"

\* the splats of the input the opacity stage rejects, by the claim's wording
BelowMinOpacity ==
    {i \in 1..cloud.count : F32Lt(cloud.opacities[i], clean_options.val.min_opacity)}

\* the splats of the input whose three scale components are all below min_scale
AllScalesBelow ==
    {i \in 1..cloud.count :
        \A k \in 1..3 : F32Lt(cloud.scales[i][k], clean_options.val.min_scale)}

\* C1: the statistics clean returns add up: original_count is the input's
\* count, final_count is the returned cloud's count, and original_count =
\* removed_low_opacity + removed_small_scale + removed_outliers + final_count.
C1_StatsAddUp ==
    CleanReturned =>
        /\ clean_stats.val.original_count = cloud.count
        /\ clean_stats.val.final_count = cleaned.val.count
        /\ clean_stats.val.original_count =
              clean_stats.val.removed_low_opacity + clean_stats.val.removed_small_scale
              + clean_stats.val.removed_outliers + clean_stats.val.final_count

\* a call in which every one of the four buckets is non-empty
C1_Witness ==
    /\ CleanReturned
    /\ clean_stats.val.removed_low_opacity > 0
    /\ clean_stats.val.removed_small_scale > 0
    /\ clean_stats.val.removed_outliers > 0
    /\ clean_stats.val.final_count > 0

\* C8: each removed splat is counted once, by the first stage that rejects it,
\* in the order opacity, scale, outlier.
C8_FirstRejectingStage ==
    CleanReturned =>
        /\ clean_stats.val.removed_low_opacity = Cardinality(BelowMinOpacity)
        /\ clean_stats.val.removed_small_scale =
              Cardinality(AllScalesBelow \ BelowMinOpacity)
        /\ clean_stats.val.removed_outliers =
              Cardinality(((1..cloud.count) \ (BelowMinOpacity \cup AllScalesBelow))
                          \ Range(result.keep_indices))
        /\ Range(result.keep_indices) \cap (BelowMinOpacity \cup AllScalesBelow) = {}

\* a call with a splat that fails the opacity and the scale stage and lies far
\* out, another removed for its scale alone, and a third removed as an outlier
C8_Witness ==
    /\ CleanReturned
    /\ BelowMinOpacity \cap AllScalesBelow # {}
    /\ AllScalesBelow \ BelowMinOpacity # {}
    /\ clean_stats.val.removed_outliers > 0

\* C9: the opacity stage keeps a splat whose opacity is exactly min_opacity and
\* removes, and counts, every splat whose opacity is below it.
C9_OpacityBoundaryInclusive ==
    CleanReturned =>
        /\ \A i \in 1..cloud.count :
              /\ cloud.opacities[i] = clean_options.val.min_opacity
                    => i \in Range(result.after_opacity)
              /\ F32Lt(cloud.opacities[i], clean_options.val.min_opacity)
                    => i \notin Range(result.after_opacity)
        /\ clean_stats.val.removed_low_opacity = cloud.count - Len(result.after_opacity)

\* a call with one splat exactly at a non-zero min_opacity and one just below
C9_Witness ==
    /\ CleanReturned
    /\ clean_options.val.min_opacity > 0
    /\ \E i \in 1..cloud.count : cloud.opacities[i] = clean_options.val.min_opacity
    /\ \E i \in 1..cloud.count : cloud.opacities[i] = clean_options.val.min_opacity - 1

\* C10: a splat that reaches the scale stage is kept by it iff one of its three
\* scale components is >= min_scale; the stage counts the splats it removes.
C10_ScaleKeepsIfAnyComponent ==
    CleanReturned =>
        /\ \A i \in Range(result.after_opacity) :
              i \in Range(result.after_scale)
                <=> \E k \in 1..3 : F32Ge(cloud.scales[i][k], clean_options.val.min_scale)
        /\ Range(result.after_scale) \subseteq Range(result.after_opacity)
        /\ clean_stats.val.removed_small_scale =
              Len(result.after_opacity) - Len(result.after_scale)

\* a call in which the scale stage keeps a splat with one component exactly at
\* min_scale and two below, and removes one with all three below
C10_Witness ==
    /\ CleanReturned
    /\ \E i \in Range(result.after_scale) :
          /\ cloud.scales[i][3] = clean_options.val.min_scale
          /\ cloud.scales[i][1] < clean_options.val.min_scale
          /\ cloud.scales[i][2] < clean_options.val.min_scale
    /\ \E i \in Range(result.after_opacity) : i \in AllScalesBelow

\* the splats that survive the opacity and the scale stage
Survivors ==
    after_scale(cloud, clean_options.val,
                after_opacity(cloud, clean_options.val, [i \in 1..cloud.count |-> i]))

\* C11: when no outlier sigma is configured, or 2 or fewer splats survive the
\* opacity and scale stages, the outlier stage does nothing: clean returns,
\* removed_outliers is 0 and the survivors are the splats returned.
C11_OutlierStageNoOp ==
    (pc = "clean_done" /\ (~clean_options.val.outlier_sigma.some \/ Len(Survivors) <= 2)) =>
        /\ result.kind = "ok"
        /\ clean_stats.val.removed_outliers = 0
        /\ result.keep_indices = Survivors
        /\ result.keep_indices = result.after_scale
        /\ cleaned.val.count = Len(Survivors)

\* a call with a sigma configured in which exactly two of three splats
\* survive the earlier stages, one of them at a position that is not a number
C11_Witness ==
    /\ CleanReturned
    /\ clean_options.val.outlier_sigma.some
    /\ cloud.count > 2
    /\ Len(Survivors) = 2
    /\ \E k \in 1..2 : \E j \in 1..3 : IsNaN(cloud.positions[Survivors[k]][j])

\* clean has returned from a call on six splats of opacity 1.0 and scale
\* (1,1,1), the first five within 0.1 units of the origin and the sixth at
\* (100,0,0), with outlier_sigma = 3.0
ScenarioCall ==
    /\ CleanReturned
    /\ cloud.count = 6
    /\ clean_options.val.outlier_sigma = Some(3 * FixedOne)
    /\ cloud.positions[6] = <<100 * FixedOne, 0, 0>>
    /\ \A i \in 1..5 : F32Le(distance(cloud.positions[i], <<0, 0, 0>>), FixedOne \div 10)
    /\ \A i \in 1..6 : cloud.opacities[i] = FixedOne
                         /\ cloud.scales[i] = <<FixedOne, FixedOne, FixedOne>>
    /\ Len(Survivors) = 6

\* the far splat is the sole removal
FarSplatSoleRemoval ==
    /\ clean_stats.val.removed_outliers = 1
    /\ clean_stats.val.final_count = 5
    /\ cleaned.val.count = 5
    /\ result.keep_indices = <<1, 2, 3, 4, 5>>

\* C12 as stated: for every 6-splat collection with five splats within 0.1
\* units of the origin and one at (100,0,0), cleaning with outlier_sigma = 3.0
\* removes the far splat and no other.
C12_EveryClusterKeepsFive == ScenarioCall => FarSplatSoleRemoval

\* C12: the far splat is removed from every such collection, and it is the
\* sole removal when the five clustered splats are the origin and the four
\* points 0.1 along x and y, in any order.
C12_FarSplatRemoved ==
    ScenarioCall =>
        /\ 6 \notin Range(result.keep_indices)
        /\ clean_stats.val.removed_outliers >= 1
        /\ Cardinality({cloud.positions[i] : i \in 1..5}) = 5 => FarSplatSoleRemoval

\* the call on the five distinct clustered splats and the far one
C12_Witness ==
    /\ ScenarioCall
    /\ Cardinality({cloud.positions[i] : i \in 1..5}) = 5
    /\ FarSplatSoleRemoval

\* the r-th smallest of a list of numbers
Ranked(values, r) ==
    CHOOSE v \in Range(values) :
        /\ Cardinality({k \in 1..Len(values) : values[k] < v}) < r
        /\ Cardinality({k \in 1..Len(values) : values[k] <= v}) >= r

\* the median of a list of numbers: its middle value, or the mean of its two
\* middle values
Middle(values) ==
    IF Len(values) % 2 = 1 THEN Ranked(values, (Len(values) + 1) \div 2)
    ELSE (Ranked(values, Len(values) \div 2) + Ranked(values, Len(values) \div 2 + 1)) \div 2

\* the per-axis median of the survivors' positions
SurvivorCenter ==
    [a \in 1..3 |-> Middle([k \in 1..Len(Survivors) |-> cloud.positions[Survivors[k]][a]])]

\* the survivors' distances to it
SurvivorDistances ==
    [k \in 1..Len(Survivors) |-> distance(cloud.positions[Survivors[k]], SurvivorCenter)]

\* median_distance + sigma_threshold * 1.4826 * MAD over those distances
RemovalBound(distances) ==
    F32Add(Middle(distances),
           F32Mul(clean_options.val.outlier_sigma.val,
                  robust_sigma(Middle([k \in 1..Len(distances) |->
                                          F32Abs(distances[k] - Middle(distances))]))))

\* the outlier stage ran and clean returned: a sigma is configured, more
\* than 2 splats survive the opacity and scale stages
OutlierStageRan ==
    /\ CleanReturned
    /\ clean_options.val.outlier_sigma.some
    /\ Len(Survivors) > 2

\* the survivors removed are those whose distance exceeds the bound
RemovedIffBeyond(distances, bound) ==
    \A k \in 1..Len(distances) :
        Survivors[k] \notin Range(result.keep_indices) <=> F32Lt(bound, distances[k])

\* C26: when a sigma threshold is configured and more than 2 splats survive
\* the opacity and scale stages, a survivor is removed by the outlier stage
\* if and only if its distance to the per-axis median of the survivors'
\* positions exceeds median_distance + sigma_threshold * 1.4826 * MAD; a
\* survivor at the bound is kept.
C26_RemovedIffBeyondBound ==
    OutlierStageRan => RemovedIffBeyond(SurvivorDistances, RemovalBound(SurvivorDistances))

\* C28: clean has no failure mode: for every collection, positions that are
\* NaN included, and every configuration with an outlier sigma, the call
\* returns a collection and its statistics.
C28_CleanAlwaysReturns ==
    (pc = "clean_done" /\ clean_options.some /\ clean_options.val.outlier_sigma.some) =>
        result.kind = "ok"

\* C29: for every sigma threshold that is not negative, of n > 2 survivors
\* of the opacity and scale stages the outlier stage removes at most
\* floor(n / 2) and keeps at least ceil(n / 2).
C29_AtMostHalfRemoved ==
    (OutlierStageRan /\ F32Ge(clean_options.val.outlier_sigma.val, 0)) =>
        /\ clean_stats.val.removed_outliers <= Len(Survivors) \div 2
        /\ Len(result.keep_indices) >= Len(Survivors) - Len(Survivors) \div 2

\* C30: convert_ply and convert_ply_with_stats called without options hand
\* convert_with_clean the configuration they compute from
\* ConvertOptions::new(): GLB, colors quantized, no full spherical
\* harmonics, no position quantization, no vertex compression, no cleaning.
C30_OmittedOptionsAreNew ==
    (entry.name \in WasmEntryPoints /\ entry.options = None) =>
        /\ config = ExportConfigOf(ConvertOptionsNew)
        /\ clean_options = CleanOptionsOf(ConvertOptionsNew)
        /\ config = [format |-> "Glb", quantize_colors |-> TRUE, export_full_sh |-> FALSE,
                     quantize_positions |-> FALSE, meshopt_compression |-> FALSE]
        /\ clean_options = None

-----------------------------------------------------------------------------
(* Claims about ply::parse, checked under SpecPly *)

\* ply::parse has come back, with a value or with a crash
ParseDone == pc = "parse_done"

\* the header of the input, where it has one
InputHeader == SubSeq(ply_data, 1, find_header_end(ply_data).val)

\* the input is one parse hands to parse_binary: it has an end_header, a
\* header that is UTF-8, declares a vertex count that parses as usize and the
\* binary format
OnBinaryPath ==
    /\ find_header_end(ply_data).kind = "ok"
    /\ from_utf8_ok(InputHeader)
    /\ parse_vertex_count(InputHeader).kind = "ok"
    /\ contains(InputHeader, FormatBinary)

\* the vertex count the header declares
DeclaredCount == parse_vertex_count(InputHeader).val

\* the number of bytes after "end_header" and its newline
BodyLength ==
    LET body_start == find_header_end(ply_data).val + Len(needle) + 1
    IN  IF body_start >= Len(ply_data) THEN 0 ELSE Len(ply_data) - body_start

\* C6: for every input, ply::parse returns a collection or a decode error to
\* its caller; no input, the one ending right after "end_header" included,
\* makes it crash or abort.
C6_ParseNeverCrashes ==
    ParseDone => \/ result.kind = "ok" /\ cloud.some
                 \/ result.kind = "err" /\ result.error.type = "Ply"

\* the input holds no "end_header"
NoEndHeader ==
    \A k \in 1..(Len(ply_data) - Len(needle) + 1) :
        SubSeq(ply_data, k, k + Len(needle) - 1) # needle

\* the lines of the header that begin with "element vertex"
ElementVertexLines ==
    {k \in 1..Len(lines(InputHeader)) : starts_with(lines(InputHeader)[k], ElementVertex)}

\* the header has no "element vertex" line
NoElementVertexLine == ~NoEndHeader /\ ElementVertexLines = {}

\* the tokens of the header's first "element vertex" line
CountLineTokens == split_whitespace(lines(InputHeader)[Min(ElementVertexLines)])

\* that line has no third token, or one that is not a run of digits
CountMissingOrNotUnsigned ==
    /\ ~NoEndHeader
    /\ ElementVertexLines # {}
    /\ \/ Len(CountLineTokens) < 3
       \/ CountLineTokens[3] = <<>>
       \/ \E k \in 1..Len(CountLineTokens[3]) : ~IsDigit(CountLineTokens[3][k])

\* C18: ply::parse ends with a Ply error and returns no collection when the
\* input holds no "end_header", when its header has no line beginning with
\* "element vertex", and when that line's third token is missing or is not an
\* unsigned integer.
C18_HeaderErrors ==
    (ParseDone /\ (NoEndHeader \/ NoElementVertexLine \/ CountMissingOrNotUnsigned)) =>
        /\ result.kind = "err"
        /\ result.error.type = "Ply"
        /\ cloud = None
        /\ NoEndHeader => result.error.msg = "No end_header found"
        /\ NoElementVertexLine => result.error.msg = "No vertex element found"
        /\ CountMissingOrNotUnsigned => result.error.msg = "Invalid vertex count"

\* a file whose "element vertex" line has a third token that is no number,
\* and whose body would decode
C18_Witness ==
    /\ ParseDone
    /\ CountMissingOrNotUnsigned
    /\ Len(CountLineTokens) = 3
    /\ BodyLength = BYTES_PER_VERTEX
    /\ result.kind = "err"

\* the input is one parse hands to parse_ascii: it has an end_header that
\* something follows, a header that is UTF-8, declares a vertex count that
\* parses as usize and not the binary format, and its body is UTF-8
OnAsciiPath ==
    /\ find_header_end(ply_data).kind = "ok"
    /\ from_utf8_ok(InputHeader)
    /\ parse_vertex_count(InputHeader).kind = "ok"
    /\ ~contains(InputHeader, FormatBinary)
    /\ find_header_end(ply_data).val + Len(needle) + 1 <= Len(ply_data)
    /\ from_utf8_ok(SubSeq(ply_data, find_header_end(ply_data).val + Len(needle) + 2,
                           Len(ply_data)))

\* the lines of the body, and how many of them the declared count covers
BodyLines ==
    lines(SubSeq(ply_data, find_header_end(ply_data).val + Len(needle) + 2, Len(ply_data)))

LinesRead == IF DeclaredCount < Len(BodyLines) THEN DeclaredCount ELSE Len(BodyLines)

\* the lines read that hold fewer than 62 tokens that parse as f32
ShortLines ==
    {k \in 1..LinesRead : Len(FilterParsed(split_whitespace(BodyLines[k]))) < 62}

\* the splat of 62 fields, numbered from 0: fields 0-2 the position, 3-5
\* ignored, 6-53 the 48 spherical-harmonics coefficients in order, 54 the
\* opacity logit, 55-57 the log-scale, 58-61 the quaternion w, x, y, z, which
\* is stored x, y, z, w
SplatOfFields(field) ==
    [position |-> <<field[0], field[1], field[2]>>,
     sh |-> [j \in 1..48 |-> IF j <= 3 THEN field[6 + (j - 1)] ELSE field[9 + (j - 4)]],
     opacity |-> sigmoid(field[54]),
     scale |-> <<exp(field[55]), exp(field[56]), exp(field[57])>>,
     rotation |-> normalize(<<field[59], field[60], field[61], field[58]>>)]

\* the k-th splat of a collection
SplatAt(c, k) ==
    [position |-> c.positions[k], sh |-> c.sh_coeffs[k], opacity |-> c.opacities[k],
     scale |-> c.scales[k], rotation |-> c.rotations[k]]

\* the 62 values the k-th record or line of the input holds, numbered from 0
FieldsOfVertex(k) == [f \in 0..61 |-> FileVertex(k)[f + 1]]

\* the binary file of n records that holds the values of the first n vertices
BinaryFileOf(n) ==
    PlyFile(TRUE, ElementLine(n), needle \o <<10>>,
            Concat([k \in 1..n |-> BinaryRecord(FileVertex(k))]))

\* the ASCII file of n lines that holds the same values
AsciiFileOf(n) ==
    PlyFile(FALSE, ElementLine(n), needle \o <<10>>,
            Concat([k \in 1..n |-> AsciiLine(FileVertex(k), 62)]))

\* the input's body follows "end_header\n" and begins with the n records, or
\* the n lines, of the first n vertices
HoldsVertices(n) ==
    LET start == find_header_end(ply_data).val + Len(needle) + 1
        body == IF OnBinaryPath
                THEN Concat([k \in 1..n |-> BinaryRecord(FileVertex(k))])
                ELSE Concat([k \in 1..n |-> AsciiLine(FileVertex(k), 62)])
    IN  /\ start <= Len(ply_data)
        /\ ply_data[start] = 10
        /\ start + Len(body) <= Len(ply_data)
        /\ SubSeq(ply_data, start + 1, start + Len(body)) = body

\* C27: every splat that either decode path returns is the splat of the 62
\* fields of its record or line under one mapping (position, ignored normal,
\* 48 coefficients, opacity logit, log-scale, quaternion w,x,y,z stored as
\* x,y,z,w), and the binary records and the ASCII lines that hold the same
\* values decode to the same collection.
C27_SameFieldsSameSplat ==
    (ParseDone /\ result.kind = "ok" /\ HoldsVertices(cloud.val.count)) =>
        /\ \A k \in 1..cloud.val.count : SplatAt(cloud.val, k) = SplatOfFields(FieldsOfVertex(k))
        /\ parse(BinaryFileOf(cloud.val.count), overflow_checks).cloud = cloud.val
        /\ parse(AsciiFileOf(cloud.val.count), overflow_checks).cloud = cloud.val

\* an ASCII file of two lines, one with a NaN, was decoded, and so was the
\* binary file of the same two vertices
C27_Witness ==
    /\ ParseDone
    /\ result.kind = "ok"
    /\ ply_data = AsciiFileOf(2)
    /\ cloud.val.count = 2
    /\ parse(BinaryFileOf(2), overflow_checks).kind = "ok"
    /\ cloud.val.rotations[2] = normalize(<<300, 400, 0, 500>>)
    /\ cloud.val.rotations[2] # normalize(<<500, 300, 400, 0>>)
    /\ IsNaN(cloud.val.positions[2][1])

\* C19: on the ASCII path the decoder reads the first min(declared count,
\* lines present) lines of the body; if one of them holds fewer than 62
\* parseable numbers it fails with a Ply error that names the first such
\* line's 1-based number, and otherwise it succeeds with that many splats,
\* whatever the declared count.
C19_AsciiCountIsLinesRead ==
    (ParseDone /\ OnAsciiPath) =>
        IF ShortLines # {}
        THEN /\ result.kind = "err"
             /\ result.error.type = "Ply"
             /\ result.error.line = Min(ShortLines)
             /\ cloud = None
        ELSE /\ result.kind = "ok"
             /\ cloud.val.count = LinesRead
             /\ Len(cloud.val.positions) = LinesRead

\* C7: on the binary path, for every declared count that parses as usize, the
\* counts whose 248-fold exceeds usize::MAX included, decoding fails with a
\* decode error when the body holds fewer than count * 248 bytes and otherwise
\* succeeds with exactly count splats.
C7_BinaryCountTimes248 ==
    (ParseDone /\ OnBinaryPath /\ find_header_end(ply_data).val + Len(needle) + 1 <= Len(ply_data)) =>
        IF BodyLength < DeclaredCount * BYTES_PER_VERTEX
        THEN result.kind = "err" /\ result.error.type = "Ply"
        ELSE /\ result.kind = "ok"
             /\ cloud.val.count = DeclaredCount
             /\ Len(cloud.val.positions) = DeclaredCount

-----------------------------------------------------------------------------
(* Claims about export_glb, checked under SpecGlb *)

\* export_glb_with_stats has returned
ExportReturned == pc = "export_done"

\* the least multiple of four that is no less than n
RoundUp4(n) == 4 * ((n + 3) \div 4)

\* C5: the output of export_glb begins with the magic bytes 'glTF', then the
\* version 2 as a little-endian u32, then a little-endian u32 total length
\* that is the number of bytes of the output, 12 + 8 + padded JSON length + 8 +
\* padded binary length.
C5_GlbHeaderDeclaresLength ==
    ExportReturned =>
        /\ SubSeq(output, 1, 4) = <<103, 108, 84, 70>>
        /\ SubSeq(output, 5, 8) = <<2, 0, 0, 0>>
        /\ u32_from_le_bytes(SubSeq(output, 9, 12)) = Len(output)
        /\ Len(output) = 12 + 8 + RoundUp4(result.json_len) + 8 + RoundUp4(result.buffer_len)

\* an export of a cloud with splats whose JSON text and whose buffer both
\* need padding
C5_Witness ==
    /\ ExportReturned
    /\ cloud.count > 0
    /\ result.json_len % 4 # 0
    /\ result.buffer_len % 4 # 0

\* the JSON chunk's length field, and the offset of the BIN chunk's header
JsonChunkLength == u32_from_le_bytes(SubSeq(output, 13, 16))

BinChunkStart == 20 + JsonChunkLength

BinChunkLength == u32_from_le_bytes(SubSeq(output, BinChunkStart + 1, BinChunkStart + 4))

\* C16: in the output of export_glb the JSON chunk follows the 12-byte header
\* and the BIN chunk follows the JSON chunk; each chunk's length field is the
\* length of its padded payload, a multiple of 4 with fewer than 4 padding
\* bytes; the JSON text is padded with spaces only and the buffer with zeros
\* only; the chunk types are 0x4E4F534A and 0x004E4942.
C16_GlbChunks ==
    ExportReturned =>
        /\ SubSeq(output, 17, 20) = <<74, 83, 79, 78>>
        /\ u32_from_le_bytes(SubSeq(output, 17, 20)) = 1313821514
        /\ JsonChunkLength % 4 = 0
        /\ JsonChunkLength - result.json_len \in 0..3
        /\ SubSeq(output, 21, 20 + result.json_len) = to_string(RootJson(result.root))
        /\ \A k \in (21 + result.json_len)..BinChunkStart : output[k] = 32
        /\ SubSeq(output, BinChunkStart + 5, BinChunkStart + 8) = <<66, 73, 78, 0>>
        /\ u32_from_le_bytes(SubSeq(output, BinChunkStart + 5, BinChunkStart + 8)) = 5130562
        /\ BinChunkLength % 4 = 0
        /\ BinChunkLength - result.buffer_len \in 0..3
        /\ \A k \in (BinChunkStart + 9 + result.buffer_len)..(BinChunkStart + 8 + BinChunkLength) :
              output[k] = 0
        /\ Len(output) = BinChunkStart + 8 + BinChunkLength

\* an export whose JSON text is padded and whose buffer is padded, and one
\* of them by more than one byte
C16_Witness ==
    /\ ExportReturned
    /\ JsonChunkLength > result.json_len
    /\ BinChunkLength > result.buffer_len
    /\ JsonChunkLength + BinChunkLength > result.json_len + result.buffer_len + 2

\* the buffer views of the document that hold a compressed attribute
CompressedViews ==
    {k \in 1..Len(result.root.buffer_views) : result.root.buffer_views[k].extensions.some}

\* C17: the document's extensionsUsed holds KHR_gaussian_splatting always,
\* KHR_mesh_quantization exactly when quantize_positions is set, and
\* EXT_meshopt_compression exactly when at least one attribute's buffer view
\* was compressed, and nothing else; extensionsRequired is empty.
C17_ExtensionsUsed ==
    ExportReturned =>
        /\ "KHR_gaussian_splatting" \in Range(result.root.extensions_used)
        /\ "KHR_mesh_quantization" \in Range(result.root.extensions_used)
              <=> config.quantize_positions
        /\ "EXT_meshopt_compression" \in Range(result.root.extensions_used)
              <=> CompressedViews # {}
        /\ Range(result.root.extensions_used) \subseteq
              {"KHR_gaussian_splatting", "KHR_mesh_quantization", "EXT_meshopt_compression"}
        /\ result.root.extensions_required = <<>>

\* an export with compression configured and positions quantized in which
\* the library compressed no attribute
C17_Witness ==
    /\ ExportReturned
    /\ cloud.count > 0
    /\ config.meshopt_compression
    /\ config.quantize_positions
    /\ meshopt # "off"
    /\ CompressedViews = {}
    /\ result.root.extensions_used = <<"KHR_gaussian_splatting", "KHR_mesh_quantization">>

\* the buffer view of POSITION that build_gltf adds for the cloud with
\* quantize_positions set to q and the call's other toggles
PositionView(q) ==
    AddPosition(Builder, cloud, [config EXCEPT !.quantize_positions = q],
                meshopt).buffer_views[1]

SmallerBeforeCompression(quantized, floats, n) ==
    /\ quantized.byte_length <= 6 * n
    /\ floats.byte_length <= 12 * n
    /\ ~quantized.extensions.some => quantized.byte_length = 6 * n
    /\ ~floats.extensions.some =>
          /\ floats.byte_length = 12 * n
          /\ quantized.byte_length < floats.byte_length

OutputWithShToggled ==
    export_glb_with_stats(cloud, [config EXCEPT !.export_full_sh = ~@], meshopt).data

\* the buffer views, accessors and attributes of the document that are named
\* for the spherical harmonics
ShViews ==
    {k \in 1..Len(result.root.buffer_views) :
        starts_with(result.root.buffer_views[k].name, Utf8("_SH_COEFFICIENTS"))}

ShAccessors ==
    {k \in 1..Len(result.root.accessors) :
        starts_with(result.root.accessors[k].name, Utf8("_SH_COEFFICIENTS"))}

ShAttributes ==
    {k \in 1..Len(result.root.attributes) :
        starts_with(result.root.attributes[k].semantic, Utf8("_SH_COEFFICIENTS"))}

\* C21: for every non-empty collection and every setting of the other
\* toggles the GLB with export_full_sh is strictly longer than the one
\* without; with the toggle the document has one more buffer view, of 192
\* bytes a splat, read through exactly twelve VEC4 f32 accessors at offsets
\* 0, 16, ..., 176, and without it no view, accessor or attribute of the
\* spherical harmonics.
C21_FullShAddsOneView ==
    ExportReturned =>
        IF config.export_full_sh
        THEN /\ cloud.count > 0 => Len(output) > Len(OutputWithShToggled)
             /\ Len(result.root.buffer_views) = 5
             /\ ShViews = {5}
             /\ result.root.buffer_views[5].byte_length = 192 * cloud.count
             /\ result.root.buffer_views[5].byte_stride = Some(192)
             /\ ShAccessors = 5..16
             /\ Len(result.root.accessors) = 16
             /\ \A k \in ShAccessors :
                   /\ result.root.accessors[k].buffer_view = Some(4)
                   /\ result.root.accessors[k].type_ = "VEC4"
                   /\ result.root.accessors[k].component_type = "F32"
                   /\ result.root.accessors[k].byte_offset = Some(16 * (k - 5))
                   /\ result.root.accessors[k].count = cloud.count
             /\ {result.root.attributes[k].accessor : k \in ShAttributes} = 4..15
        ELSE /\ cloud.count > 0 => Len(output) < Len(OutputWithShToggled)
             /\ Len(result.root.buffer_views) = 4
             /\ Len(result.root.accessors) = 4
             /\ ShViews = {} /\ ShAccessors = {} /\ ShAttributes = {}

\* an export of two splats with the full spherical harmonics and with
\* attributes that the library compressed
C21_Witness ==
    /\ ExportReturned
    /\ cloud.count = 2
    /\ config.export_full_sh
    /\ CompressedViews # {}
    /\ result.root.buffer_views[5].byte_length = 384
    /\ Len(output) > Len(OutputWithShToggled) + 384

\* the decoder of the delta coder, from position pos of the stream on, with
\* left vertices to come after the vertex prev: None for a stream that is
\* short, names a byte beyond the stride, or has bytes left over
RECURSIVE DecodeDeltas(_, _, _, _, _, _)
DecodeDeltas(stream, pos, stride, left, prev, out) ==
    IF left = 0 THEN (IF pos = Len(stream) + 1 THEN Some(out) ELSE None)
    ELSE IF pos > Len(stream) \/ pos + 2 * stream[pos] > Len(stream) THEN None
    ELSE IF \E m \in 1..stream[pos] : stream[pos + 2 * m - 1] >= stride THEN None
    ELSE DecodeDeltas(stream, pos + 1 + 2 * stream[pos], stride, left - 1,
             [j \in 1..stride |->
                 IF \E m \in 1..stream[pos] : stream[pos + 2 * m - 1] = j - 1
                 THEN stream[pos + 2 * (CHOOSE m \in 1..stream[pos] :
                                            stream[pos + 2 * m - 1] = j - 1)]
                 ELSE prev[j]],
             out \o [j \in 1..stride |->
                 IF \E m \in 1..stream[pos] : stream[pos + 2 * m - 1] = j - 1
                 THEN stream[pos + 2 * (CHOOSE m \in 1..stream[pos] :
                                            stream[pos + 2 * m - 1] = j - 1)]
                 ELSE prev[j]])

\* what a loader decodes from a stream of the delta coder with the stride and
\* the count of a compression marker
decode_vertex_buffer(stream, stride, count) ==
    IF count = 0 \/ stride = 0 \/ Len(stream) < 1 + stride \/ stream[1] # 160 THEN None
    ELSE DecodeDeltas(stream, 2 + stride, stride, count - 1,
                      SubSeq(stream, 2, 1 + stride), SubSeq(stream, 2, 1 + stride))

\* the bytes the written GLB holds for buffer view k
EmittedBytes(k) ==
    SubSeq(output,
           BinChunkStart + 8 + result.root.buffer_views[k].byte_offset.val + 1,
           BinChunkStart + 8 + result.root.buffer_views[k].byte_offset.val
               + result.root.buffer_views[k].byte_length)

\* the packed bytes of every attribute before compression: the buffer views
\* of the same export with meshopt_compression off
Uncompressed == build_gltf(cloud, [config EXCEPT !.meshopt_compression = FALSE], meshopt)

PackedIn(built, k) ==
    SubSeq(built.buffer_data,
           built.root.buffer_views[k].byte_offset.val + 1,
           built.root.buffer_views[k].byte_offset.val + built.root.buffer_views[k].byte_length)

PackedBytes(k) == PackedIn(Uncompressed, k)

\* decoding view k by its marker gives back its packed bytes
DecodesToPacked(k) ==
    /\ result.root.buffer_views[k].extensions.val.byteStride
          * result.root.buffer_views[k].extensions.val.count = Len(PackedBytes(k))
    /\ decode_vertex_buffer(EmittedBytes(k),
                            result.root.buffer_views[k].extensions.val.byteStride,
                            result.root.buffer_views[k].extensions.val.count)
          = Some(PackedBytes(k))

\* C22: for every attribute whose bytes were replaced by compressed bytes, a
\* quantized POSITION of stride 6 included, decoding the emitted bytes with
\* the byteStride and count of that view's compression marker gives exactly
\* the packed bytes of the attribute, stride * count of them.
C22_CompressionRoundTrip ==
    (ExportReturned /\ meshopt = "deltas") => \A k \in CompressedViews : DecodesToPacked(k)

\* C23: with meshopt_compression set, every attribute buffer view packed,
\* POSITION, COLOR_0, _ROTATION, _SCALE and with export_full_sh the view of
\* the spherical harmonics, is counted once, as compressed or as skipped:
\* compressed_count + skipped_count is the number of buffer views, there is
\* one detail entry a view, in the order of the views, and compressed_count
\* counts the views that carry the compression marker.
C23_EveryViewCounted ==
    (ExportReturned /\ config.meshopt_compression) =>
        /\ result.compression_stats.some
        /\ result.compression_stats.val.compressed_count = Cardinality(CompressedViews)
        /\ result.compression_stats.val.compressed_count
              + result.compression_stats.val.skipped_count = Len(result.root.buffer_views)
        /\ Len(result.compression_stats.val.details) = Len(result.root.buffer_views)
        /\ \A k \in 1..Len(result.root.buffer_views) :
              Utf8(result.compression_stats.val.details[k].attribute) \o Utf8("_view")
                = result.root.buffer_views[k].name

\* the byte stride build_gltf packs attribute view k with
AttributeStride(k) ==
    CASE k = 1 -> IF config.quantize_positions THEN 6 ELSE 12
      [] k = 2 -> IF config.quantize_colors THEN 4 ELSE 16
      [] k = 3 -> 16
      [] k = 4 -> 12
      [] k = 5 -> 192

\* every view of the export is compressed only under the conditions, and
\* otherwise holds the bytes it holds in the export built without compression
OnlyIfSmaller(built) ==
    \A k \in 1..Len(result.root.buffer_views) :
        IF k \in CompressedViews
        THEN /\ config.meshopt_compression
             /\ meshopt # "off"
             /\ AttributeStride(k) > 0 /\ cloud.count > 0
             /\ result.root.buffer_views[k].extensions.val.byteStride = AttributeStride(k)
             /\ result.root.buffer_views[k].extensions.val.count = cloud.count
             /\ Len(PackedIn(built, k)) = AttributeStride(k) * cloud.count
             /\ RoundUp4(AttributeStride(k)) \div 4 \in 1..4
             /\ result.root.buffer_views[k].byte_length < Len(PackedIn(built, k))
             /\ result.compression_stats.val.details[k].compressed_size
                   = result.root.buffer_views[k].byte_length
        ELSE /\ EmittedBytes(k) = PackedIn(built, k)
             /\ (config.meshopt_compression /\ k <= 4) =>
                   result.compression_stats.val.details[k].compressed_size = 0

\* C24: a view holds compressed bytes only if meshopt_compression is set,
\* the build has the encoder, stride and count are not zero, the packed
\* length is stride * count, the stride padded to a multiple of 4 is one to
\* four 4-byte lanes, and the emitted length is strictly below the packed
\* length; every other view holds its packed bytes unchanged, and where
\* statistics are kept its detail entry records a compressed size of 0.
C24_CompressedOnlyIfSmaller == ExportReturned => OnlyIfSmaller(Uncompressed)

\* an export of one splat in which the encoder's stream for the quantized
\* POSITION is exactly as long as its six packed bytes, which are kept, while
\* COLOR_0 is compressed
C24_Witness ==
    /\ ExportReturned
    /\ cloud.count = 1
    /\ config.meshopt_compression /\ config.quantize_positions
    /\ meshopt = "trims"
    /\ 1 \notin CompressedViews
    /\ 2 \in CompressedViews
    /\ EmittedBytes(1) = PackedBytes(1)
    /\ result.compression_stats.val.details[1].compressed_size = 0

\* the first byte (0-based) of buffer view k in the buffer, and the byte
\* after its last
ViewStart(k) == result.root.buffer_views[k].byte_offset.val

ViewEnd(k) == ViewStart(k) + result.root.buffer_views[k].byte_length

\* byte i (0-based) of the buffer, read from the BIN chunk of the output
BufferByte(i) == output[BinChunkStart + 8 + i + 1]

\* C25: the buffer views are, in this order, those of POSITION, COLOR_0,
\* _ROTATION, _SCALE and, with export_full_sh, the spherical harmonics; the
\* first begins at 0, every byte offset is a multiple of 4, a view begins
\* at or after the end of the view before it and the bytes between them
\* are zeros, and the last view ends where the buffer ends, at the byte
\* length the document declares for its one buffer, the length of the
\* buffer packed.
C25_ViewLayout ==
    ExportReturned =>
        /\ [k \in 1..Len(result.root.buffer_views) |-> result.root.buffer_views[k].name]
             = [k \in 1..(IF config.export_full_sh THEN 5 ELSE 4) |->
                   <<Utf8("POSITION"), Utf8("COLOR_0"), Utf8("_ROTATION"), Utf8("_SCALE"),
                     Utf8("_SH_COEFFICIENTS")>>[k] \o Utf8("_view")]
        /\ Len(result.root.buffers) = 1
        /\ result.root.buffers[1].byte_length = result.buffer_len
        /\ ViewStart(1) = 0
        /\ \A k \in 1..Len(result.root.buffer_views) :
              /\ result.root.buffer_views[k].buffer = 0
              /\ ViewStart(k) % 4 = 0
              /\ ViewEnd(k) <= result.root.buffers[1].byte_length
              /\ k > 1 =>
                    /\ ViewEnd(k - 1) <= ViewStart(k)
                    /\ ViewStart(k) - ViewEnd(k - 1) < 4
                    /\ \A i \in ViewEnd(k - 1)..(ViewStart(k) - 1) : BufferByte(i) = 0
        /\ ViewEnd(Len(result.root.buffer_views)) = result.buffer_len

\* an export in which two compressed views end off a multiple of 4 and the
\* views after them begin past their ends
C25_Witness ==
    /\ ExportReturned
    /\ config.export_full_sh
    /\ \E j, k \in CompressedViews :
          /\ j # k
          /\ ViewEnd(j) % 4 # 0 /\ ViewStart(j + 1) > ViewEnd(j)
          /\ ViewEnd(k) % 4 # 0 /\ ViewStart(k + 1) > ViewEnd(k)

-----------------------------------------------------------------------------
(* Claims about convert_with_clean, checked under Spec *)

\* the stages a call with these inputs goes through when none of them fails
StagesOfCall ==
    IF clean_options.some
    THEN <<"validate", "quota", "size", "parse", "clean", "export">>
    ELSE <<"validate", "quota", "size", "parse", "export">>

\* the error type a failure of a stage is reported with
ErrorOfStage(stage) ==
    CASE stage = "validate" -> "Token"
      [] stage = "quota" -> "QuotaExceeded"
      [] stage = "size" -> "FileTooLarge"
      [] stage = "parse" -> "Ply"
      [] OTHER -> "none"

\* the token validated and its quota is not used up
QuotaPassed == claims.some /\ claims.val.conversions_remaining > 0

\* C2: when the validated token's remaining-conversion count is zero, the call
\* is rejected with QuotaExceeded, and the decoder, the cleaning filter and
\* the encoder are never invoked, whatever the input's size or content.
C2_QuotaZeroRejectsBeforeProcessing ==
    (claims.some /\ claims.val.conversions_remaining = 0) =>
        /\ \A k \in 1..Len(calls) : calls[k] \in {"validate", "quota"}
        /\ pc \in {"quota", "done"}
        /\ cloud = None /\ cleaned = None /\ clean_stats = None /\ output = <<>>
        /\ pc = "done" => result = QuotaExceededError

\* a call rejected for its quota whose input is also larger than permitted
C2_Witness ==
    /\ pc = "done"
    /\ claims.some /\ claims.val.conversions_remaining = 0
    /\ Len(ply_data) > claims.val.max_file_size
    /\ result = QuotaExceededError

\* C3: the input's length is compared with max_file_size before the decoder
\* is invoked: a longer input is rejected with FileTooLarge carrying the size
\* and the limit and is never parsed; an input no longer than the limit
\* proceeds to the decoder.
C3_SizeCheckedBeforeDecoding ==
    /\ (\E k \in 1..Len(calls) : calls[k] = "parse") =>
          /\ \E j, k \in 1..Len(calls) : j < k /\ calls[j] = "size" /\ calls[k] = "parse"
          /\ Len(ply_data) <= claims.val.max_file_size
    /\ (pc = "done" /\ QuotaPassed /\ Len(ply_data) > claims.val.max_file_size) =>
          /\ result = FileTooLargeError(Len(ply_data), claims.val.max_file_size)
          /\ \A k \in 1..Len(calls) : calls[k] # "parse"
    /\ (pc = "done" /\ QuotaPassed /\ Len(ply_data) <= claims.val.max_file_size) =>
          \E k \in 1..Len(calls) : calls[k] = "parse"

\* a call whose input is exactly as long as the limit, and was decoded
C3_Witness ==
    /\ pc = "done"
    /\ QuotaPassed
    /\ Len(ply_data) = claims.val.max_file_size
    /\ \E k \in 1..Len(calls) : calls[k] = "parse"
    /\ result.kind = "ok"

\* C4: the stages run in the order validate, quota check, size check, decode,
\* optional clean, encode; a stage's failure ends the call with that stage's
\* error, with no later stage run and no output bytes or statistics returned;
\* output bytes are returned only when every stage succeeded.
C4_NoPartialSuccess ==
    /\ Len(calls) <= Len(StagesOfCall)
    /\ calls = SubSeq(StagesOfCall, 1, Len(calls))
    /\ pc # "done" => result = NoResult /\ output = <<>>
    /\ result.kind = "err" =>
          /\ pc = "done"
          /\ result.error.type = ErrorOfStage(calls[Len(calls)])
          /\ DOMAIN result = {"kind", "error"}
          /\ output = <<>>
    /\ result.kind = "panic" => pc = "done" /\ output = <<>>
    /\ (output # <<>> \/ result.kind = "ok") =>
          /\ pc = "done"
          /\ result.kind = "ok"
          /\ calls = StagesOfCall
          /\ output # <<>>
          /\ result.clean_stats = clean_stats
          /\ clean_stats.some <=> clean_options.some

\* a call with cleaning asked for that the decoder ended with its error
C4_Witness ==
    /\ pc = "done"
    /\ clean_options.some
    /\ result.kind = "err"
    /\ result.error.type = "Ply"
    /\ calls = <<"validate", "quota", "size", "parse">>

\* the five attribute sequences of a collection all have count elements
SameLength(c) ==
    /\ Len(c.positions) = c.count
    /\ Len(c.opacities) = c.count
    /\ Len(c.scales) = c.count
    /\ Len(c.rotations) = c.count
    /\ Len(c.sh_coeffs) = c.count

\* C14: every collection the pipeline holds, the one the binary or the ASCII
\* decoder returned and the one clean returned, has five attribute sequences
\* whose common length is its count.
C14_AttributesSameLength ==
    /\ cloud.some => SameLength(cloud.val)
    /\ cleaned.some => SameLength(cleaned.val)

\* an ASCII file with fewer lines than it declares was decoded, and clean
\* returned a collection of its own
C14_Witness ==
    /\ cloud.some /\ cleaned.some /\ clean_stats.some
    /\ ~contains(ply_data, FormatBinary)
    /\ cloud.val.count = 1
    /\ parse_vertex_count(SubSeq(ply_data, 1, find_header_end(ply_data).val)).val = 2

\* what the encoder returns for the collection c under the call's configuration
Encoded(c) ==
    IF config.format = "Glb" THEN export_glb_with_stats(c, config, meshopt)
    ELSE export_gltf_embedded_with_stats(c, config, meshopt)

\* C15: a call without a cleaning configuration never calls clean: the
\* collection handed to the encoder is the decoded one, the output is the
\* encoding of the decoded collection, and the result carries no cleaning
\* statistics; a successful result carries statistics exactly when a
\* configuration was supplied.
C15_NoOptionsSkipsClean ==
    /\ ~clean_options.some =>
          /\ "clean" \notin Range(calls)
          /\ cleaned.some => cleaned = cloud
          /\ clean_stats = None
          /\ result.kind = "ok" =>
                /\ "export" \in Range(calls)
                /\ output = Encoded(cloud.val).data
    /\ result.kind = "ok" => (result.clean_stats.some <=> clean_options.some)

\* a successful call without a cleaning configuration on a file with splats
C15_Witness ==
    /\ pc = "done"
    /\ result.kind = "ok"
    /\ ~clean_options.some
    /\ cloud.val.count > 0
    /\ calls = <<"validate", "quota", "size", "parse", "export">>

====
